---- MODULE Spec2Model ----
(***************************************************************************)
(* A model of the subway-data-api ingestion pipeline:                      *)
(*   DataValidator (src/src/data_validator.py),                            *)
(*   MTAClient     (src/src/mta_client.py),                                *)
(*   DataStorage   (src/src/data_storage.py).                              *)
(* The three objects share no state; each has its own specification.      *)
(***************************************************************************)
EXTENDS Integers, Sequences, FiniteSets, TLC

VARIABLES
    validation_errors,    \* DataValidator.validation_errors
    validation_warnings,  \* DataValidator.validation_warnings
    vcall,                \* the validator call that last returned, with its result
    heap,                 \* the list objects the validator has created: heap[id] is the content
    refs,                 \* the ids of the lists validation_errors and validation_warnings name
    returned,             \* the validate_feed_data calls so far, with the ids of the lists returned
    threads,              \* the validate_feed_data call each thread is in, and where it is
    ccall,                \* the MTAClient call that last returned, with its Transport requests
    clock,                \* wall clock, seconds since 2024-01-01 00:00:00 UTC
    ticks,                \* number of clock advances so far
    raw_dir,              \* files of DataStorage.raw_dir
    parsed_dir,           \* files of DataStorage.parsed_dir
    samples_dir,          \* files of DataStorage.samples_dir
    scall                 \* the DataStorage call that last returned, with its result

vars == <<validation_errors, validation_warnings, vcall, heap, refs, returned, threads, ccall,
          clock, ticks, raw_dir, parsed_dir, samples_dir, scall>>

reuseVars == <<heap, refs, returned>>
threadVars == <<threads>>
validatorVars == <<validation_errors, validation_warnings, vcall, reuseVars, threadVars>>
clientVars == <<ccall>>
storeVars == <<clock, ticks, raw_dir, parsed_dir, samples_dir, scall>>

(***************************************************************************)
(* Python values.  A dictionary entry is a record whose field k tells      *)
(* whether the key is missing ("absent"), maps to None ("none") or maps to *)
(* a value ("val", in field v).                                            *)
(***************************************************************************)
Absent == [k |-> "absent", v |-> 0]
PyNone == [k |-> "none", v |-> 0]
Num(n) == [k |-> "val", v |-> n]

AbsentS == [k |-> "absent", v |-> ""]
NoneS == [k |-> "none", v |-> ""]
Str(s) == [k |-> "val", v |-> s]

\* `key in d`
HasKey(x) == x.k # "absent"
\* truth value of d[key] for a number or None
TruthyNum(x) == x.k = "val" /\ x.v # 0
\* truth value of d[key] for a string or None
TruthyStr(x) == x.k = "val" /\ x.v # ""
\* d.get(key) is not None
NotNone(x) == x.k = "val"

\* A container entry: key missing ("absent"), a list ("list", items in v),
\* or a value that is not a list ("other").
NoList == [k |-> "absent", v |-> <<>>]
NotAList == [k |-> "other", v |-> <<>>]
List(s) == [k |-> "list", v |-> s]

SeqsUpTo(S, n) == UNION {[1..m -> S] : m \in 0..n}

\* One message of the error or warning list: its text and the indices and
\* field the f-string interpolates.
Msg(text, i, j, f) == [m |-> text, i |-> i, j |-> j, f |-> f]

(***************************************************************************)
(* DataValidator                                                           *)
(***************************************************************************)
StaleWarnMinutes == 10
StaleErrorMinutes == 30
LatMin == 4040
LatMax == 4090
LonMin == -7430
LonMax == -7370

EmptyAcc == [errors |-> <<>>, warnings |-> <<>>, steps |-> <<>>]

AddError(acc, msg) == [acc EXCEPT !.errors = Append(@, msg)]
AddWarning(acc, msg) == [acc EXCEPT !.warnings = Append(@, msg)]
\* ghost: the check `name` has started
Enter(acc, name) == [acc EXCEPT !.steps = Append(@, name)]

_validate_basic_structure(acc, fd) ==
    IF ~fd.isdict
    THEN [ok |-> FALSE, acc |-> AddError(acc, Msg("Feed data must be a dictionary", 0, 0, ""))]
    ELSE IF fd.header.k # "absent" THEN
        IF ~HasKey(fd.header.timestamp)
        THEN [ok |-> FALSE, acc |-> AddError(acc, Msg("Missing timestamp in header", 0, 0, ""))]
        ELSE [ok |-> TRUE, acc |-> acc]
    ELSE IF HasKey(fd.last_update) THEN
        IF ~TruthyNum(fd.last_update)
        THEN [ok |-> FALSE, acc |-> AddError(acc, Msg("Missing last_update timestamp", 0, 0, ""))]
        ELSE [ok |-> TRUE, acc |-> acc]
    ELSE [ok |-> FALSE, acc |-> AddError(acc, Msg("Feed data missing timestamp information", 0, 0, ""))]

\* feed_timestamp of _validate_timestamp_freshness and of get_data_statistics
FeedTimestamp(fd) ==
    IF fd.header.k # "absent" THEN
        (IF NotNone(fd.header.timestamp) THEN fd.header.timestamp ELSE PyNone)
    ELSE IF HasKey(fd.last_update) THEN fd.last_update
    ELSE PyNone

\* age_minutes > m, where age_minutes = age_seconds / 60 (a float division)
AgeMinutesOver(age_seconds, m) == age_seconds > m * 60

_validate_timestamp_freshness_strict(acc, fd, now) ==
    LET a == Enter(acc, "freshness")
        ts == FeedTimestamp(fd)
    IN IF TruthyNum(ts) THEN
           LET age_seconds == now - ts.v
           IN IF AgeMinutesOver(age_seconds, StaleErrorMinutes)
              THEN AddError(a, Msg("too stale", age_seconds, 0, ""))
              ELSE IF AgeMinutesOver(age_seconds, StaleWarnMinutes)
              THEN AddWarning(a, Msg("may be stale", age_seconds, 0, ""))
              ELSE a
       ELSE a

_validate_timestamp_freshness(acc, fd, now) ==
    LET a == Enter(acc, "freshness")
        ts == FeedTimestamp(fd)
    IN IF TruthyNum(ts) THEN
           LET age_seconds == now - ts.v
           IN IF AgeMinutesOver(age_seconds, StaleWarnMinutes)
              THEN AddWarning(a, Msg("may be stale", age_seconds, 0, ""))
              ELSE IF AgeMinutesOver(age_seconds, StaleErrorMinutes)
              THEN AddError(a, Msg("too stale", age_seconds, 0, ""))
              ELSE a
       ELSE a

\* the timing warning given when either time is missing
StopUpdateStep_either(acc, update, trip_index, j) ==
    IF ~update.isdict
    THEN AddError(acc, Msg("stop update must be a dictionary", trip_index, j, ""))
    ELSE
        LET a1 == IF ~HasKey(update.stop_id) \/ ~TruthyStr(update.stop_id)
                  THEN AddWarning(acc, Msg("stop update missing stop_id", trip_index, j, ""))
                  ELSE acc
            has_arrival == HasKey(update.arrival_time) /\ TruthyNum(update.arrival_time)
            has_departure == HasKey(update.departure_time) /\ TruthyNum(update.departure_time)
        IN IF ~has_arrival \/ ~has_departure
           THEN AddWarning(a1, Msg("stop update missing timing information", trip_index, j, ""))
           ELSE a1

\* the body of the loop over one stop-time update, j counted from 0
StopUpdateStep(acc, update, trip_index, j) ==
    IF ~update.isdict
    THEN AddError(acc, Msg("stop update must be a dictionary", trip_index, j, ""))
    ELSE
        LET a1 == IF ~HasKey(update.stop_id) \/ ~TruthyStr(update.stop_id)
                  THEN AddWarning(acc, Msg("stop update missing stop_id", trip_index, j, ""))
                  ELSE acc
            has_arrival == HasKey(update.arrival_time) /\ TruthyNum(update.arrival_time)
            has_departure == HasKey(update.departure_time) /\ TruthyNum(update.departure_time)
        IN IF ~has_arrival /\ ~has_departure
           THEN AddWarning(a1, Msg("stop update missing timing information", trip_index, j, ""))
           ELSE a1

RECURSIVE StopUpdatesLoop(_, _, _, _)
StopUpdatesLoop(acc, updates, trip_index, n) ==
    IF n > Len(updates) THEN acc
    ELSE StopUpdatesLoop(StopUpdateStep(acc, updates[n], trip_index, n - 1),
                         updates, trip_index, n + 1)

_validate_stop_time_updates(acc, updates, trip_index) ==
    IF updates.k # "list"
    THEN AddError(acc, Msg("stop_time_updates must be a list", trip_index, 0, ""))
    ELSE StopUpdatesLoop(acc, updates.v, trip_index, 1)

\* the body of the loop over one trip, i counted from 0
TripStep(acc, trip, i) ==
    IF ~trip.isdict
    THEN AddError(acc, Msg("Trip must be a dictionary", i, 0, ""))
    ELSE
        LET a1 == IF ~HasKey(trip.trip_id) \/ ~TruthyStr(trip.trip_id)
                  THEN AddWarning(acc, Msg("Trip missing required field", i, 0, "trip_id"))
                  ELSE acc
            a2 == IF ~HasKey(trip.route_id) \/ ~TruthyStr(trip.route_id)
                  THEN AddWarning(a1, Msg("Trip missing required field", i, 0, "route_id"))
                  ELSE a1
        IN IF trip.stop_time_updates.k # "absent"
           THEN _validate_stop_time_updates(a2, trip.stop_time_updates, i)
           ELSE a2

RECURSIVE TripsLoop(_, _, _)
TripsLoop(acc, trips, n) ==
    IF n > Len(trips) THEN acc
    ELSE TripsLoop(TripStep(acc, trips[n], n - 1), trips, n + 1)

_validate_trips_data(acc, trips) ==
    LET a == Enter(acc, "trips")
    IN IF trips.k # "list"
       THEN AddError(a, Msg("Trips data must be a list", 0, 0, ""))
       ELSE TripsLoop(a, trips.v, 1)

\* the box without its border
InNYC_strict(lat, lon) == LatMin < lat /\ lat < LatMax /\ LonMin < lon /\ lon < LonMax

\* 40.4 <= lat <= 40.9 and -74.3 <= lon <= -73.7, in hundredths of a degree
InNYC(lat, lon) == LatMin <= lat /\ lat <= LatMax /\ LonMin <= lon /\ lon <= LonMax

\* the body of the loop over one vehicle, i counted from 0
VehicleStep(acc, vehicle, i) ==
    IF ~vehicle.isdict
    THEN AddError(acc, Msg("Vehicle must be a dictionary", i, 0, ""))
    ELSE
        LET a1 == IF ~HasKey(vehicle.trip_id) \/ ~TruthyStr(vehicle.trip_id)
                  THEN AddWarning(acc, Msg("Vehicle missing trip_id association", i, 0, ""))
                  ELSE acc
            position == vehicle.position
        IN IF position.k = "dict" THEN
               LET lat == position.latitude
                   lon == position.longitude
               IN IF ~NotNone(lat) /\ ~NotNone(lon)
                  THEN AddWarning(a1, Msg("Vehicle missing position coordinates", i, 0, ""))
                  ELSE IF NotNone(lat) /\ NotNone(lon)
                  THEN (IF ~InNYC(lat.v, lon.v)
                        THEN AddWarning(a1, Msg("Vehicle position outside NYC area", i, 0, ""))
                        ELSE a1)
                  ELSE a1
           ELSE a1

RECURSIVE VehiclesLoop(_, _, _)
VehiclesLoop(acc, vehicles, n) ==
    IF n > Len(vehicles) THEN acc
    ELSE VehiclesLoop(VehicleStep(acc, vehicles[n], n - 1), vehicles, n + 1)

_validate_vehicles_data(acc, vehicles) ==
    LET a == Enter(acc, "vehicles")
    IN IF vehicles.k # "list"
       THEN AddError(a, Msg("Vehicles data must be a list", 0, 0, ""))
       ELSE VehiclesLoop(a, vehicles.v, 1)

\* alerts counted as data
EntityStep_alerts(c, entity, i) ==
    IF ~entity.isdict
    THEN [c EXCEPT !.acc = AddError(@, Msg("Entity must be a dictionary", i, 0, ""))]
    ELSE [acc |-> IF ~HasKey(entity.id)
                  THEN AddError(c.acc, Msg("Entity missing id field", i, 0, ""))
                  ELSE c.acc,
          trip_updates |-> c.trip_updates + (IF entity.trip_update.k # "absent" THEN 1 ELSE 0),
          vehicle_positions |-> c.vehicle_positions
                                  + (IF entity.vehicle.k # "absent" \/ entity.alert.k # "absent"
                                     THEN 1 ELSE 0),
          alerts |-> c.alerts + (IF entity.alert.k # "absent" THEN 1 ELSE 0)]

\* the loop of _validate_entities_data: c holds the accumulator and the counters
EntityStep(c, entity, i) ==
    IF ~entity.isdict
    THEN [c EXCEPT !.acc = AddError(@, Msg("Entity must be a dictionary", i, 0, ""))]
    ELSE [acc |-> IF ~HasKey(entity.id)
                  THEN AddError(c.acc, Msg("Entity missing id field", i, 0, ""))
                  ELSE c.acc,
          trip_updates |-> c.trip_updates + (IF entity.trip_update.k # "absent" THEN 1 ELSE 0),
          vehicle_positions |-> c.vehicle_positions + (IF entity.vehicle.k # "absent" THEN 1 ELSE 0),
          alerts |-> c.alerts + (IF entity.alert.k # "absent" THEN 1 ELSE 0)]

RECURSIVE EntitiesLoop(_, _, _)
EntitiesLoop(c, entities, n) ==
    IF n > Len(entities) THEN c
    ELSE EntitiesLoop(EntityStep(c, entities[n], n - 1), entities, n + 1)

_validate_entities_data(acc, entities) ==
    LET a == Enter(acc, "entities")
    IN IF entities.k # "list"
       THEN AddError(a, Msg("Entities must be a list", 0, 0, ""))
       ELSE LET c == EntitiesLoop([acc |-> a, trip_updates |-> 0,
                                   vehicle_positions |-> 0, alerts |-> 0],
                                  entities.v, 1)
            IN IF c.trip_updates = 0 /\ c.vehicle_positions = 0
               THEN AddWarning(c.acc, Msg("Feed contains no trip or vehicle data", 0, 0, ""))
               ELSE c.acc

\* is_valid computed from the warnings as well
validate_feed_data_strictwarn(fd, now) ==
    LET s == _validate_basic_structure(EmptyAcc, fd)
    IN IF ~s.ok
       THEN [is_valid |-> FALSE, errors |-> s.acc.errors,
             warnings |-> s.acc.warnings, steps |-> s.acc.steps]
       ELSE
           LET a1 == _validate_timestamp_freshness(s.acc, fd, now)
               a2 == IF fd.trips.k # "absent" THEN _validate_trips_data(a1, fd.trips) ELSE a1
               a3 == IF fd.vehicles.k # "absent" THEN _validate_vehicles_data(a2, fd.vehicles) ELSE a2
               a4 == IF fd.entities.k # "absent" THEN _validate_entities_data(a3, fd.entities) ELSE a3
           IN [is_valid |-> Len(a4.errors) = 0 /\ Len(a4.warnings) = 0, errors |-> a4.errors,
               warnings |-> a4.warnings, steps |-> a4.steps]

\* no early return after a structural failure
validate_feed_data_noshort(fd, now) ==
    LET s == _validate_basic_structure(EmptyAcc, fd)
        a1 == _validate_timestamp_freshness(s.acc, fd, now)
        a2 == IF fd.trips.k # "absent" THEN _validate_trips_data(a1, fd.trips) ELSE a1
        a3 == IF fd.vehicles.k # "absent" THEN _validate_vehicles_data(a2, fd.vehicles) ELSE a2
        a4 == IF fd.entities.k # "absent" THEN _validate_entities_data(a3, fd.entities) ELSE a3
    IN [is_valid |-> Len(a4.errors) = 0, errors |-> a4.errors,
        warnings |-> a4.warnings, steps |-> a4.steps]

\* The returned tuple (is_valid, errors, warnings); steps is the ghost list of
\* the checks that ran.
validate_feed_data(fd, now) ==
    LET s == _validate_basic_structure(EmptyAcc, fd)
    IN IF ~s.ok
       THEN [is_valid |-> FALSE, errors |-> s.acc.errors,
             warnings |-> s.acc.warnings, steps |-> s.acc.steps]
       ELSE
           LET a1 == _validate_timestamp_freshness(s.acc, fd, now)
               a2 == IF fd.trips.k # "absent" THEN _validate_trips_data(a1, fd.trips) ELSE a1
               a3 == IF fd.vehicles.k # "absent" THEN _validate_vehicles_data(a2, fd.vehicles) ELSE a2
               a4 == IF fd.entities.k # "absent" THEN _validate_entities_data(a3, fd.entities) ELSE a3
           IN [is_valid |-> Len(a4.errors) = 0, errors |-> a4.errors,
               warnings |-> a4.warnings, steps |-> a4.steps]

(***************************************************************************)
(* The snapshots the validator is run on.                                  *)
(***************************************************************************)
MaxItems == 2

\* the two instants at which validation runs (epoch seconds)
Nows == {100000, 101200}
\* ages, in seconds at the first instant, of the snapshot timestamps
Ages == {-30, 61, 600, 601, 1800, 1801, 2400}
Timestamps == {0} \cup {100000 - a : a \in Ages}

UpdOK == [isdict |-> TRUE, stop_id |-> Str("L01N"),
          arrival_time |-> Num(99000), departure_time |-> PyNone]
UpdUnset == [isdict |-> TRUE, stop_id |-> Str(""),
             arrival_time |-> PyNone, departure_time |-> PyNone]
UpdZeroTime == [isdict |-> TRUE, stop_id |-> AbsentS,
                arrival_time |-> Num(0), departure_time |-> Absent]
UpdNotDict == [isdict |-> FALSE, stop_id |-> AbsentS,
               arrival_time |-> Absent, departure_time |-> Absent]

TripOK == [isdict |-> TRUE, trip_id |-> Str("T1"), route_id |-> Str("L"),
           stop_time_updates |-> List(<<UpdOK>>)]
TripNoRoute == [isdict |-> TRUE, trip_id |-> Str("T2"), route_id |-> NoneS,
                stop_time_updates |-> NoList]
TripBadStops == [isdict |-> TRUE, trip_id |-> AbsentS, route_id |-> Str("N"),
                 stop_time_updates |-> List(<<UpdUnset, UpdNotDict, UpdZeroTime>>)]
TripStopsNotList == [isdict |-> TRUE, trip_id |-> Str(""), route_id |-> Str("Q"),
                     stop_time_updates |-> NotAList]
TripNotDict == [isdict |-> FALSE, trip_id |-> AbsentS, route_id |-> AbsentS,
                stop_time_updates |-> NoList]
TripUnsetStops == [isdict |-> TRUE, trip_id |-> Str("T5"), route_id |-> Str(""),
                   stop_time_updates |-> List(<<UpdUnset, UpdOK, UpdZeroTime>>)]
TripSet == {TripOK, TripNoRoute, TripBadStops, TripStopsNotList, TripNotDict, TripUnsetStops}

NoPosition == [k |-> "absent", latitude |-> Absent, longitude |-> Absent]
Position(lat, lon) == [k |-> "dict", latitude |-> lat, longitude |-> lon]

VehInside == [isdict |-> TRUE, trip_id |-> Str("T1"), route_id |-> Str("L"),
              position |-> Position(Num(4075), Num(-7398))]
VehOrigin == [isdict |-> TRUE, trip_id |-> Str("T2"), route_id |-> Str("N"),
              position |-> Position(Num(0), Num(0))]
VehEdge == [isdict |-> TRUE, trip_id |-> NoneS, route_id |-> NoneS,
            position |-> Position(Num(4040), Num(-7370))]
VehLatOnly == [isdict |-> TRUE, trip_id |-> Str("T3"), route_id |-> Str("Q"),
               position |-> Position(Num(4075), PyNone)]
VehNoCoords == [isdict |-> TRUE, trip_id |-> AbsentS, route_id |-> AbsentS,
                position |-> Position(PyNone, Absent)]
VehNoPosition == [isdict |-> TRUE, trip_id |-> Str("T4"), route_id |-> Str("L"),
                  position |-> NoPosition]
VehNotDict == [isdict |-> FALSE, trip_id |-> AbsentS, route_id |-> AbsentS,
               position |-> [k |-> "other", latitude |-> Absent, longitude |-> Absent]]
VehicleSet == {VehInside, VehOrigin, VehEdge, VehLatOnly, VehNoCoords, VehNoPosition, VehNotDict}

NoTrip == [k |-> "absent", v |-> TripNotDict]
NoVehicle == [k |-> "absent", v |-> VehNotDict]
Entity(id, trip, vehicle, alert) ==
    [isdict |-> TRUE, id |-> id, trip_update |-> trip, vehicle |-> vehicle,
     alert |-> [k |-> IF alert THEN "val" ELSE "absent"]]

EntTrip == Entity(Str("e1"), [k |-> "val", v |-> TripOK], NoVehicle, FALSE)
EntTripNoRoute == Entity(Str("e2"), [k |-> "val", v |-> TripNoRoute], NoVehicle, FALSE)
EntVehicle == Entity(Str("e3"), NoTrip, [k |-> "val", v |-> VehOrigin], FALSE)
EntAlert == Entity(Str("e4"), NoTrip, NoVehicle, TRUE)
EntEmpty == Entity(Str("e5"), NoTrip, NoVehicle, FALSE)
EntNoId == Entity(AbsentS, [k |-> "val", v |-> TripBadStops], NoVehicle, FALSE)
EntNotDict == [isdict |-> FALSE, id |-> AbsentS, trip_update |-> NoTrip,
               vehicle |-> NoVehicle, alert |-> [k |-> "absent"]]
EntitySet == {EntTrip, EntTripNoRoute, EntVehicle, EntAlert, EntEmpty, EntNoId, EntNotDict}

NoHeader == [k |-> "absent", timestamp |-> Absent]
Header(ts) == [k |-> "val", timestamp |-> ts]

FeedData(header, last_update, trips, vehicles, entities) ==
    [isdict |-> TRUE, header |-> header, last_update |-> last_update,
     trips |-> trips, vehicles |-> vehicles, entities |-> entities]

\* a feed_data argument that is not a dictionary
NotADict == [isdict |-> FALSE, header |-> NoHeader, last_update |-> Absent,
             trips |-> NoList, vehicles |-> NoList, entities |-> NoList]

Lists(S, n) == {NoList, NotAList} \cup {List(s) : s \in SeqsUpTo(S, n)}

HeaderOpts == {NoHeader, Header(Absent), Header(PyNone)} \cup {Header(Num(t)) : t \in Timestamps}
LastUpdateOpts == {Absent, PyNone, Num(0), Num(100000 - 61), Num(100000 - 2400)}

\* the contents that go with every timestamp combination
FewContents ==
    {<<NoList, NoList, NoList>>,
     <<NoList, NoList, List(<<EntTrip>>)>>,
     <<List(<<TripOK>>), List(<<VehInside>>), NoList>>,
     <<List(<<TripBadStops>>), List(<<VehOrigin>>), List(<<EntNoId>>)>>}
\* the timestamps that go with every combination of short lists
FewHeaders == {NoHeader, Header(Absent), Header(Num(0)), Header(Num(100000 - 61))}
FewLastUpdates == {Absent, Num(0), Num(100000 - 2400)}

(***************************************************************************)
(* The validator's specification: a DataValidator is constructed and        *)
(* validate_feed_data is called on it.                                      *)
(***************************************************************************)
NoCall == [op |-> "none"]

FirstCall == vcall.op = "none"

\* validation_errors = [] and validation_warnings = [] of __init__
NewLists == [heap |-> << <<>>, <<>> >>, refs |-> [errors |-> 1, warnings |-> 2]]

\* the threads that share the DataValidator, and a thread that is in no call
ThreadIds == {"t1", "t2"}
NoThreadCall == [pc |-> "idle"]

InitIdle ==
    /\ threads = [t \in ThreadIds |-> NoThreadCall]
    /\ validation_errors = <<>>
    /\ validation_warnings = <<>>
    /\ vcall = NoCall
    /\ heap = NewLists.heap
    /\ refs = NewLists.refs
    /\ returned = <<>>
    /\ ccall = NoCall
    /\ clock = 0
    /\ ticks = 0
    /\ raw_dir = {}
    /\ parsed_dir = {}
    /\ samples_dir = {}
    /\ scall = NoCall

\* the two lists are kept from call to call
ResetLists_keep(h, rf) == [heap |-> h, refs |-> rf]

\* self.validation_errors = [] and self.validation_warnings = []: two new
\* list objects, the old ones left as they are
ResetLists(h, rf) ==
    [heap |-> h \o << <<>>, <<>> >>, refs |-> [errors |-> Len(h) + 1, warnings |-> Len(h) + 2]]

\* The lists after a validate_feed_data call that started with the lists st:
\* every check appends to the lists self names, so the messages of the call
\* follow what the lists held.
ListsAfter(st, r) ==
    [st.heap EXCEPT ![st.refs.errors] = @ \o r.errors, ![st.refs.warnings] = @ \o r.warnings]

\* validator.validate_feed_data(feed_data) at time now; the lists returned are
\* the list objects self names
\* (FirstCall: the call is the first one on the new instance)
ValidateFeedData(fd, now) ==
    /\ LET st == ResetLists(heap, refs)
           r == validate_feed_data(fd, now)
           h == ListsAfter(st, r)
           errors == h[st.refs.errors]
           warnings == h[st.refs.warnings]
       IN /\ heap' = h
          /\ refs' = st.refs
          /\ validation_errors' = errors
          /\ validation_warnings' = warnings
          /\ returned' = Append(returned, [feed_data |-> fd, now |-> now,
                                           errors |-> st.refs.errors,
                                           warnings |-> st.refs.warnings])
          /\ vcall' = [op |-> "validate_feed_data", feed_data |-> fd, now |-> now,
                       ret |-> [r EXCEPT !.errors = errors, !.warnings = warnings,
                                         !.is_valid = r.is_valid /\ Len(errors) = 0]]
    /\ UNCHANGED <<threadVars, clientVars, storeVars>>

\* every timestamp combination, with little content
ValidateTimeSlice ==
    /\ FirstCall
    /\ \E h \in HeaderOpts, u \in LastUpdateOpts, c \in FewContents, now \in Nows :
           ValidateFeedData(FeedData(h, u, c[1], c[2], c[3]), now)

\* every combination of short trips, vehicles and entities lists
ValidateMixedSlice ==
    /\ FirstCall
    /\ \E h \in FewHeaders, u \in FewLastUpdates, t \in Lists(TripSet, 1),
          v \in Lists(VehicleSet, 1), e \in Lists(EntitySet, 1), now \in Nows :
           ValidateFeedData(FeedData(h, u, t, v, e), now)

\* the pre-split form (last_update, trips, vehicles), longer trips lists
ValidateTripSlice ==
    /\ FirstCall
    /\ \E t \in Lists(TripSet, MaxItems), v \in {NoList, List(<<VehInside>>)}, now \in Nows :
           ValidateFeedData(FeedData(NoHeader, Num(100000 - 61), t, v, NoList), now)

\* the pre-split form, longer vehicles lists
ValidateVehicleSlice ==
    /\ FirstCall
    /\ \E t \in {NoList, List(<<TripOK>>)}, v \in Lists(VehicleSet, MaxItems), now \in Nows :
           ValidateFeedData(FeedData(NoHeader, Num(100000 - 61), t, v, NoList), now)

\* the form parse_feed_data produces (header, entities), longer entity lists
ValidateEntitySlice ==
    /\ FirstCall
    /\ \E ts \in {0, 100000 - 61}, e \in Lists(EntitySet, MaxItems), now \in Nows :
           ValidateFeedData(FeedData(Header(Num(ts)), Absent, NoList, NoList, e), now)

\* a feed_data argument that is not a dictionary
ValidateNotADict ==
    /\ FirstCall
    /\ \E now \in Nows : ValidateFeedData(NotADict, now)

NextValidator ==
    \/ ValidateTimeSlice
    \/ ValidateMixedSlice
    \/ ValidateTripSlice
    \/ ValidateVehicleSlice
    \/ ValidateEntitySlice
    \/ ValidateNotADict

SpecValidator == InitIdle /\ [][NextValidator]_vars

Validated == vcall.op = "validate_feed_data"

\* the messages of list msgs whose text is text
Count(msgs, text) == Cardinality({n \in 1..Len(msgs) : msgs[n].m = text})

(***************************************************************************)
(* C1: validate_feed_data returns is_valid = true exactly when the          *)
(* returned errors list is empty, whatever the warnings, on the early       *)
(* structural-failure return too.                                           *)
(***************************************************************************)
C1_ValidIffNoErrors ==
    Validated => (vcall.ret.is_valid <=> Len(vcall.ret.errors) = 0)

\* a valid result that carries warnings
C1_Witness ==
    /\ Validated
    /\ vcall.ret.is_valid
    /\ Len(vcall.ret.warnings) > 0

(***************************************************************************)
(* C2: a snapshot that carries neither a header timestamp (no header, or a  *)
(* header without the timestamp key) nor a last_update timestamp is         *)
(* rejected with exactly one error and no warning, and no later check       *)
(* (freshness, trips, vehicles, entities) runs.  A header timestamp that is *)
(* present but zero is the case of C3.                                      *)
(***************************************************************************)
CarriesNoTimestamp(fd) ==
    /\ fd.isdict
    /\ fd.header.k = "absent" \/ ~HasKey(fd.header.timestamp)
    /\ ~TruthyNum(fd.last_update)

C2_StructuralShortCircuit ==
    (Validated /\ CarriesNoTimestamp(vcall.feed_data)) =>
        /\ ~vcall.ret.is_valid
        /\ Len(vcall.ret.errors) = 1
        /\ Len(vcall.ret.warnings) = 0
        /\ vcall.ret.steps = <<>>

\* a snapshot without timestamp whose trips, vehicles and entities would
\* each have produced messages
C2_Witness ==
    /\ Validated
    /\ CarriesNoTimestamp(vcall.feed_data)
    /\ vcall.feed_data.trips = List(<<TripBadStops>>)
    /\ vcall.feed_data.vehicles = List(<<VehOrigin>>)
    /\ vcall.feed_data.entities = List(<<EntNoId>>)
    /\ Len(vcall.ret.errors) = 1

(***************************************************************************)
(* C3: a snapshot whose header timestamp is present but 0, and which has no *)
(* non-zero last_update, is rejected with exactly the one structural error. *)
(***************************************************************************)
ZeroHeaderTimestamp(fd) ==
    /\ fd.isdict
    /\ fd.header.k = "val"
    /\ fd.header.timestamp = Num(0)
    /\ ~TruthyNum(fd.last_update)

C3_ZeroTimestampRejected ==
    (Validated /\ ZeroHeaderTimestamp(vcall.feed_data)) =>
        /\ ~vcall.ret.is_valid
        /\ Len(vcall.ret.errors) = 1
        /\ Len(vcall.ret.warnings) = 0

(***************************************************************************)
(* C4: for a snapshot that passes the structural check with a (non-zero)    *)
(* timestamp t, the result holds exactly one staleness warning if           *)
(* now - t > 10 minutes and none otherwise, and never a staleness error; a  *)
(* snapshot 40 minutes old without other defects is valid with exactly one  *)
(* warning, and a snapshot 61 seconds old has no staleness warning.         *)
(***************************************************************************)
HasTimestamp(fd) ==
    /\ fd.isdict
    /\ IF fd.header.k = "val" THEN TruthyNum(fd.header.timestamp)
       ELSE TruthyNum(fd.last_update)

TimestampOf(fd) ==
    IF fd.header.k = "val" THEN fd.header.timestamp.v ELSE fd.last_update.v

\* a snapshot whose only possible defect is its age
CleanAt(ts) == FeedData(Header(Num(ts)), Absent, NoList, NoList, List(<<EntTrip>>))

C4_FreshnessLegacy ==
    (Validated /\ HasTimestamp(vcall.feed_data)) =>
        LET age == vcall.now - TimestampOf(vcall.feed_data)
        IN /\ Count(vcall.ret.warnings, "may be stale") = (IF age > 600 THEN 1 ELSE 0)
           /\ Count(vcall.ret.errors, "too stale") = 0
           /\ Count(vcall.ret.warnings, "too stale") = 0
           /\ Count(vcall.ret.errors, "may be stale") = 0
           /\ (age = 61 => Count(vcall.ret.warnings, "may be stale") = 0)
           /\ (age = 2400 /\ vcall.feed_data = CleanAt(vcall.now - 2400)) =>
                  /\ vcall.ret.is_valid
                  /\ Len(vcall.ret.warnings) = 1
                  /\ vcall.ret.errors = <<>>

\* the 40-minute-old snapshot, validated
C4_Witness ==
    /\ Validated
    /\ vcall.feed_data = CleanAt(vcall.now - 2400)
    /\ vcall.ret.is_valid
    /\ Count(vcall.ret.warnings, "may be stale") = 1

(***************************************************************************)
(* MTAClient                                                               *)
(***************************************************************************)
FEED_URLS ==
    [f \in {"ace", "bdfm", "g", "jz", "nqrw", "l", "123456", "sir"} |->
        CASE f = "ace" -> "nyct%2Fgtfs-ace"
          [] f = "bdfm" -> "nyct%2Fgtfs-bdfm"
          [] f = "g" -> "nyct%2Fgtfs-g"
          [] f = "jz" -> "nyct%2Fgtfs-jz"
          [] f = "nqrw" -> "nyct%2Fgtfs-nqrw"
          [] f = "l" -> "nyct%2Fgtfs-l"
          [] f = "123456" -> "nyct%2Fgtfs"
          [] f = "sir" -> "nyct%2Fgtfs-si"]

LINE_TO_FEED ==
    [line \in {"A", "C", "E", "H", "FS", "B", "D", "F", "M", "G", "J", "Z",
               "N", "Q", "R", "W", "L", "1", "2", "3", "4", "5", "6", "7", "S", "SIR"} |->
        CASE line \in {"A", "C", "E", "H", "FS"} -> "ace"
          [] line \in {"B", "D", "F", "M"} -> "bdfm"
          [] line = "G" -> "g"
          [] line \in {"J", "Z"} -> "jz"
          [] line \in {"N", "Q", "R", "W"} -> "nqrw"
          [] line = "L" -> "l"
          [] line \in {"1", "2", "3", "4", "5", "6", "7", "S"} -> "123456"
          [] line = "SIR" -> "sir"]

\* Python return values
RetNone == [k |-> "none"]
RetBytes(b) == [k |-> "bytes", v |-> b]
RetDict(d) == [k |-> "dict", v |-> d]

\* The outcome of one call of a client method: the returned value, the
\* exception that escaped it ("none" if it returned), the number of
\* Transport requests it sent to each URL, and the warnings it logged.
NoRequests == [u \in {} |-> 0]
Outcome(ret, requests) == [ret |-> ret, raised |-> "none", requests |-> requests, warnings |-> <<>>]
Raise(exc, requests) == [ret |-> RetNone, raised |-> exc, requests |-> requests, warnings |-> <<>>]

\* requests with one more request to url
Sent(requests, url) ==
    [u \in DOMAIN requests \cup {url} |->
        IF u \in DOMAIN requests
        THEN requests[u] + (IF u = url THEN 1 ELSE 0)
        ELSE 1]

RECURSIVE SumOver(_, _)
SumOver(f, D) ==
    IF D = {} THEN 0
    ELSE LET x == CHOOSE y \in D : TRUE IN f[x] + SumOver(f, D \ {x})
\* the number of Transport requests in all
TotalRequests(requests) == SumOver(requests, DOMAIN requests)
RequestsTo(requests, url) == IF url \in DOMAIN requests THEN requests[url] ELSE 0

\* the exceptions of session.get and raise_for_status
TransportErrors == {"Timeout", "ConnectionError", "HTTPError"}
\* except requests.exceptions.RequestException
IsRequestException(exc) == exc \in {"Timeout", "ConnectionError", "HTTPError"}

\* Bytes: empty, not a FeedMessage, or the encoding of a FeedMessage
EmptyMessage == [header |-> [timestamp |-> 0], entity |-> <<>>]
BytesEmpty == [kind |-> "empty", msg |-> EmptyMessage]
BytesGarbage == [kind |-> "garbage", msg |-> EmptyMessage]
BytesOf(msg) == [kind |-> "message", msg |-> msg]

\* what Transport answers: a 2xx response with content, or an error
Ok(content) == [kind |-> "ok", content |-> content]
Fail(exc) == [kind |-> exc, content |-> BytesEmpty]

\* one more request after a failure
fetch_feed_data_retry(feed_name, reply) ==
    IF feed_name \notin DOMAIN FEED_URLS
    THEN Outcome(RetNone, NoRequests)
    ELSE LET url == FEED_URLS[feed_name]
         IN IF reply.kind = "ok"
            THEN Outcome(RetBytes(reply.content), Sent(NoRequests, url))
            ELSE Outcome(RetNone, Sent(Sent(NoRequests, url), url))

fetch_feed_data(feed_name, reply) ==
    IF feed_name \notin DOMAIN FEED_URLS
    THEN Outcome(RetNone, NoRequests)
    ELSE LET url == FEED_URLS[feed_name]
             requests == Sent(NoRequests, url)
         IN IF reply.kind = "ok"
            THEN Outcome(RetBytes(reply.content), requests)
            ELSE IF IsRequestException(reply.kind)
            THEN Outcome(RetNone, requests)
            ELSE Raise(reply.kind, requests)

\* value if value else None, for a protobuf string field ("" when unset)
StrOrNone(x) == IF x # "" THEN Str(x) ELSE NoneS

\* The fields start_time, start_date, schedule_relationship and
\* stop_sequence are copied and read by no operation of the model.
_parse_trip_update(trip_update) ==
    [isdict |-> TRUE,
     trip_id |-> StrOrNone(trip_update.trip_id),
     route_id |-> StrOrNone(trip_update.route_id),
     stop_time_updates |->
        List([n \in 1..Len(trip_update.stop_time_update) |->
                LET stu == trip_update.stop_time_update[n]
                IN [isdict |-> TRUE,
                    stop_id |-> Str(stu.stop_id),
                    arrival_time |-> IF stu.arrival.k = "val" THEN Num(stu.arrival.v) ELSE PyNone,
                    departure_time |-> IF stu.departure.k = "val" THEN Num(stu.departure.v) ELSE PyNone]])]

\* The fields current_stop_sequence, current_status, timestamp and stop_id
\* are copied and read by no operation of the model.
_parse_vehicle_position(vehicle) ==
    [isdict |-> TRUE,
     trip_id |-> StrOrNone(vehicle.trip_id),
     route_id |-> StrOrNone(vehicle.route_id),
     position |-> Position(
        IF vehicle.position.k = "val" THEN Num(vehicle.position.latitude) ELSE PyNone,
        IF vehicle.position.k = "val" THEN Num(vehicle.position.longitude) ELSE PyNone)]

\* the loop body of parse_feed_data: one upstream entity to one entity_data
ParseEntity(entity) ==
    [isdict |-> TRUE,
     id |-> Str(entity.id),
     trip_update |-> IF entity.trip_update.k = "val"
                     THEN [k |-> "val", v |-> _parse_trip_update(entity.trip_update.v)]
                     ELSE NoTrip,
     vehicle |-> IF entity.vehicle.k = "val"
                 THEN [k |-> "val", v |-> _parse_vehicle_position(entity.vehicle.v)]
                 ELSE NoVehicle,
     alert |-> [k |-> IF entity.alert.k = "val" THEN "val" ELSE "absent"]]

\* ParseFromString raises on bytes that are no FeedMessage; empty bytes
\* decode to the empty message
parse_feed_data(feed_data) ==
    IF feed_data.kind = "garbage"
    THEN Outcome(RetNone, NoRequests)
    ELSE LET feed_message == feed_data.msg
         IN Outcome(RetDict(FeedData(Header(Num(feed_message.header.timestamp)), Absent,
                                     NoList, NoList,
                                     List([n \in 1..Len(feed_message.entity) |->
                                              ParseEntity(feed_message.entity[n])]))),
                    NoRequests)

\* `not raw_data`: None or empty bytes
parse_feed_with_nyct(feed_name, reply) ==
    LET fetched == fetch_feed_data(feed_name, reply)
    IN IF fetched.raised # "none" THEN Outcome(RetNone, fetched.requests)
       ELSE IF fetched.ret.k = "none" \/ fetched.ret.v.kind = "empty"
       THEN Outcome(RetNone, fetched.requests)
       ELSE LET parsed == parse_feed_data(fetched.ret.v)
            IN IF parsed.raised # "none" THEN Outcome(RetNone, fetched.requests)
               ELSE Outcome(parsed.ret, fetched.requests)

\* feeds_needed.add(feed) on a list instead of a set
SetAdd_list(feeds, feed) == Append(feeds, feed)

\* feeds_needed.add(feed); the set is kept as a sequence without repeats,
\* its order being the arbitrary order in which a Python set is iterated
SetAdd(feeds, feed) ==
    IF \E n \in 1..Len(feeds) : feeds[n] = feed THEN feeds ELSE Append(feeds, feed)

\* the first loop of get_lines_data
RECURSIVE FeedsNeededLoop(_, _, _)
FeedsNeededLoop(lines, n, st) ==
    IF n > Len(lines) THEN st
    ELSE LET line == lines[n]
         IN FeedsNeededLoop(lines, n + 1,
                IF line \in DOMAIN LINE_TO_FEED
                THEN [st EXCEPT !.feeds = SetAdd(@, LINE_TO_FEED[line])]
                ELSE [st EXCEPT !.warnings = Append(@, line)])

FeedsNeeded(lines) == FeedsNeededLoop(lines, 1, [feeds |-> <<>>, warnings |-> <<>>])

MergeRequests(a, b) ==
    [u \in DOMAIN a \cup DOMAIN b |-> RequestsTo(a, u) + RequestsTo(b, u)]

\* result[feed_name] = feed_data
DictSet(result, key, value) ==
    [f \in DOMAIN result \cup {key} |-> IF f = key THEN value ELSE result[f]]

\* the second loop of get_lines_data; replies[feed] is what Transport
\* answers to the request for that feed
RECURSIVE FetchLoop(_, _, _, _)
FetchLoop(feeds, n, replies, st) ==
    IF n > Len(feeds) THEN st
    ELSE LET feed_name == feeds[n]
             p == parse_feed_with_nyct(feed_name, replies[feed_name])
         IN FetchLoop(feeds, n + 1, replies,
                [result |-> IF p.ret.k = "dict"
                            THEN DictSet(st.result, feed_name, p.ret.v)
                            ELSE st.result,
                 requests |-> MergeRequests(st.requests, p.requests)])

get_lines_data(lines, replies) ==
    LET needed == FeedsNeeded(lines)
        st == FetchLoop(needed.feeds, 1, replies,
                        [result |-> [f \in {} |-> 0], requests |-> NoRequests])
    IN [ret |-> RetDict(st.result), raised |-> "none",
        requests |-> st.requests, warnings |-> needed.warnings]

(***************************************************************************)
(* The client's inputs: feed messages, bytes, Transport replies, lines.    *)
(***************************************************************************)
MaxEntities == 2
MaxLines == 3

NoPayload == [k |-> "absent"]
PbNoTrip == [k |-> "absent", v |-> [trip_id |-> "", route_id |-> "", stop_time_update |-> <<>>]]
PbNoVehicle == [k |-> "absent",
                v |-> [trip_id |-> "", route_id |-> "",
                       position |-> [k |-> "absent", latitude |-> 0, longitude |-> 0]]]
PbTrip(trip_id, route_id, stus) ==
    [k |-> "val", v |-> [trip_id |-> trip_id, route_id |-> route_id, stop_time_update |-> stus]]
PbVehicle(trip_id, route_id, position) ==
    [k |-> "val", v |-> [trip_id |-> trip_id, route_id |-> route_id, position |-> position]]
PbEntity(id, trip_update, vehicle, alert) ==
    [id |-> id, trip_update |-> trip_update, vehicle |-> vehicle, alert |-> alert]

PbStuArrival == [stop_id |-> "L01N", arrival |-> Num(99000), departure |-> Absent]
PbStuUnset == [stop_id |-> "", arrival |-> Absent, departure |-> Absent]
PbPosInside == [k |-> "val", latitude |-> 4075, longitude |-> -7398]
PbPosAbsent == [k |-> "absent", latitude |-> 0, longitude |-> 0]

PbEntities ==
    {PbEntity("e1", PbTrip("T1", "L", <<PbStuArrival>>), PbNoVehicle, NoPayload),
     PbEntity("e2", PbTrip("", "", <<PbStuUnset, PbStuArrival>>), PbNoVehicle, NoPayload),
     PbEntity("e3", PbNoTrip, PbVehicle("T1", "L", PbPosInside), NoPayload),
     PbEntity("e4", PbNoTrip, PbVehicle("", "N", PbPosAbsent), NoPayload),
     PbEntity("e5", PbNoTrip, PbNoVehicle, [k |-> "val"]),
     PbEntity("e6", PbNoTrip, PbNoVehicle, NoPayload),
     PbEntity("e7", PbTrip("T2", "Q", <<>>), PbVehicle("T2", "Q", PbPosInside), NoPayload)}

FeedMessage(timestamp, entity) == [header |-> [timestamp |-> timestamp], entity |-> entity]
MessageL == FeedMessage(99939, <<PbEntity("e1", PbTrip("T1", "L", <<PbStuArrival>>), PbNoVehicle, NoPayload)>>)

\* the feeds and lines of test_multiple_feeds, a line of another feed that
\* shares none, and a line that is in no table
FeedNames == DOMAIN FEED_URLS \cup {"invalid_feed"}
LineNames == {"L", "N", "Q", "A", "X"}
FewReplies == {Ok(BytesOf(MessageL)), Ok(BytesEmpty), Ok(BytesGarbage), Fail("Timeout")}

Range(seq) == {seq[n] : n \in 1..Len(seq)}

ClientIdle == ccall.op = "none"

\* client.fetch_feed_data(feed_name), Transport answering reply
FetchFeedData ==
    /\ ClientIdle
    /\ \E feed_name \in FeedNames,
          reply \in {Ok(b) : b \in {BytesEmpty, BytesGarbage, BytesOf(MessageL)}}
                    \cup {Fail(exc) : exc \in TransportErrors} :
           ccall' = [op |-> "fetch_feed_data", feed_name |-> feed_name, reply |-> reply,
                     out |-> fetch_feed_data(feed_name, reply)]
    /\ UNCHANGED <<validatorVars, storeVars>>

\* client.parse_feed_data(feed_data)
ParseFeedDataOf(feed_data) ==
    /\ ccall' = [op |-> "parse_feed_data", feed_data |-> feed_data,
                 out |-> parse_feed_data(feed_data)]
    /\ UNCHANGED <<validatorVars, storeVars>>

ParseFeedData ==
    /\ ClientIdle
    /\ \/ ParseFeedDataOf(BytesEmpty)
       \/ ParseFeedDataOf(BytesGarbage)
       \/ \E timestamp \in {0, 99939}, entity \in SeqsUpTo(PbEntities, MaxEntities) :
              ParseFeedDataOf(BytesOf(FeedMessage(timestamp, entity)))

\* client.get_lines_data(lines), Transport answering replies[feed] for feed
GetLinesData ==
    /\ ClientIdle
    /\ \E lines \in SeqsUpTo(LineNames, MaxLines) :
       \E replies \in [Range(FeedsNeeded(lines).feeds) -> FewReplies] :
           ccall' = [op |-> "get_lines_data", lines |-> lines, replies |-> replies,
                     out |-> get_lines_data(lines, replies)]
    /\ UNCHANGED <<validatorVars, storeVars>>

NextClient ==
    \/ FetchFeedData
    \/ ParseFeedData
    \/ GetLinesData

SpecClient == InitIdle /\ [][NextClient]_vars

(***************************************************************************)
(* C5: every line of LINE_TO_FEED resolves to its one feed, which is        *)
(* fetched; for a line that is not in the table, get_lines_data fails with  *)
(* a configuration error surfaced to the caller, and fetches nothing for    *)
(* it.                                                                      *)
(***************************************************************************)
C5_UnknownLineFails ==
    ccall.op = "get_lines_data" =>
        /\ \A n \in 1..Len(ccall.lines) :
               ccall.lines[n] \in DOMAIN LINE_TO_FEED =>
                   RequestsTo(ccall.out.requests, FEED_URLS[LINE_TO_FEED[ccall.lines[n]]]) = 1
        /\ (\E n \in 1..Len(ccall.lines) : ccall.lines[n] \notin DOMAIN LINE_TO_FEED) =>
               ccall.out.raised = "ConfigurationError"

(***************************************************************************)
(* C6: during one get_lines_data call every channel is requested from       *)
(* Transport at most once: exactly once if some known line of the list maps *)
(* to it, never otherwise, whatever the repeats in the list.                *)
(***************************************************************************)
C6_ChannelDeduplication ==
    ccall.op = "get_lines_data" =>
        \A feed \in DOMAIN FEED_URLS :
            RequestsTo(ccall.out.requests, FEED_URLS[feed]) =
                (IF \E n \in 1..Len(ccall.lines) :
                        /\ ccall.lines[n] \in DOMAIN LINE_TO_FEED
                        /\ LINE_TO_FEED[ccall.lines[n]] = feed
                 THEN 1 ELSE 0)

\* N, Q and N again share nqrw: one request
C6_Witness ==
    /\ ccall.op = "get_lines_data"
    /\ ccall.lines = <<"N", "Q", "N">>
    /\ RequestsTo(ccall.out.requests, FEED_URLS["nqrw"]) = 1
    /\ TotalRequests(ccall.out.requests) = 1

(***************************************************************************)
(* C7: fetch_feed_data returns bytes or None and raises nothing; it sends   *)
(* no Transport request for a feed name outside FEED_URLS and exactly one   *)
(* otherwise, also after a timeout, a network failure or an HTTP error      *)
(* (which give None); parse_feed_data gives None on bytes it cannot decode. *)
(***************************************************************************)
C7_FetchOnceNoRaise ==
    /\ ccall.op = "fetch_feed_data" =>
        /\ ccall.out.raised = "none"
        /\ ccall.out.ret.k \in {"bytes", "none"}
        /\ TotalRequests(ccall.out.requests) =
               (IF ccall.feed_name \in DOMAIN FEED_URLS THEN 1 ELSE 0)
        /\ ccall.feed_name \notin DOMAIN FEED_URLS => ccall.out.ret.k = "none"
        /\ ccall.reply.kind \in TransportErrors => ccall.out.ret.k = "none"
        /\ (ccall.feed_name \in DOMAIN FEED_URLS /\ ccall.reply.kind = "ok") =>
               ccall.out.ret = RetBytes(ccall.reply.content)
    /\ (ccall.op = "parse_feed_data" /\ ccall.feed_data.kind = "garbage") =>
        /\ ccall.out.raised = "none"
        /\ ccall.out.ret.k = "none"

\* a timeout on the l feed: one request, None
C7_Witness ==
    /\ ccall.op = "fetch_feed_data"
    /\ ccall.feed_name = "l"
    /\ ccall.reply.kind = "Timeout"
    /\ ccall.out.ret.k = "none"
    /\ TotalRequests(ccall.out.requests) = 1

(***************************************************************************)
(* DataStorage.  A file name is a sequence of characters; a directory is a  *)
(* set of files with distinct names.  A file holds its content, its         *)
(* modification time and (ghost) the feed_name it was saved under.          *)
(***************************************************************************)
\* the characters of file names, in ASCII order
AsciiTable ==
    <<".", "0", "1", "2", "3", "4", "5", "6", "7", "8", "9", "A", "B", "_",
      "a", "b", "c", "d", "e", "j", "l", "m", "n", "o", "p", "r", "s", "t", "y">>
Ord(c) == CHOOSE n \in 1..Len(AsciiTable) : AsciiTable[n] = c

\* a < b for Python strings
RECURSIVE StrLess(_, _)
StrLess(a, b) ==
    IF b = <<>> THEN FALSE
    ELSE IF a = <<>> THEN TRUE
    ELSE IF Head(a) = Head(b) THEN StrLess(Tail(a), Tail(b))
    ELSE Ord(Head(a)) < Ord(Head(b))

\* f.startswith(prefix), f.endswith(suffix)
startswith(f, prefix) ==
    Len(prefix) <= Len(f) /\ SubSeq(f, 1, Len(prefix)) = prefix
endswith(f, suffix) ==
    Len(suffix) <= Len(f) /\ SubSeq(f, Len(f) - Len(suffix) + 1, Len(f)) = suffix

SecondsPerDay == 86400
\* a number below 100 as two digits, zero-padded
TwoDigits(n) == <<AsciiTable[(n \div 10) + 2], AsciiTable[(n % 10) + 2]>>
\* strftime('%Y%m%d_%H%M%S') of the instant t seconds after
\* 2024-01-01 00:00:00 UTC, for an instant of January 2024
strftime(t) ==
    <<"2", "0", "2", "4">> \o <<"0", "1">> \o TwoDigits(1 + t \div SecondsPerDay)
    \o <<"_">> \o TwoDigits((t % SecondsPerDay) \div 3600)
    \o TwoDigits((t % 3600) \div 60) \o TwoDigits(t % 60)

ExtPb == <<".", "p", "b">>
ExtJson == <<".", "j", "s", "o", "n">>
Underscore == <<"_">>
SampleInfix == <<"_", "s", "a", "m", "p", "l", "e", "_">>

File(name, mtime, content, feed) ==
    [name |-> name, mtime |-> mtime, content |-> content, feed |-> feed]
\* open(filepath, 'w'): the file of that name is created or replaced
WriteFile(dir, file) == {f \in dir : f.name # file.name} \cup {file}
Path(data_type, name) == [dir |-> data_type, name |-> name]
Names(dir) == {f.name : f \in dir}

\* sorted(matching_files)[0]
LatestOf_first(matching_files) ==
    CHOOSE f \in matching_files : \A g \in matching_files : g = f \/ StrLess(f, g)

\* sorted(matching_files)[-1]
LatestOf(matching_files) ==
    CHOOSE f \in matching_files : \A g \in matching_files : g = f \/ StrLess(g, f)

\* files is os.listdir(directory) when data_type is a key of directory_map
get_latest_file(feed_name, data_type, files) ==
    IF data_type \notin {"raw", "parsed", "samples"} THEN RetNone
    ELSE LET extension == IF data_type = "raw" THEN ExtPb ELSE ExtJson
             matching_files == {f \in files : startswith(f, feed_name) /\ endswith(f, extension)}
         IN IF matching_files = {} THEN RetNone
            ELSE [k |-> "path", v |-> Path(data_type, LatestOf(matching_files))]

\* the file survives the loop body of cleanup_old_files: it is at or after
\* the cutoff, or os.remove raised
Kept_inclusive(f, cutoff_timestamp, failing) ==
    ~(f.mtime <= cutoff_timestamp) \/ f.name \in failing

Kept(f, cutoff_timestamp, failing) ==
    ~(f.mtime < cutoff_timestamp) \/ f.name \in failing

\* one directory after the loop over its files; failing[data_type] holds the
\* names of the files on which os.remove raises
CleanDir(dir, cutoff_timestamp, failing) ==
    {f \in dir : Kept(f, cutoff_timestamp, failing)}

(***************************************************************************)
(* The values save_parsed_feed_data is given: None, booleans, numbers,      *)
(* strings, lists, dictionaries (sets of <<key, value>> with distinct       *)
(* keys), datetime objects (v: epoch seconds) and other objects (v: the     *)
(* entries of __dict__).                                                    *)
(***************************************************************************)
JNull == [k |-> "null", v |-> 0]
JBool(b) == [k |-> "bool", v |-> b]
JNum(n) == [k |-> "num", v |-> n]
JStr(str) == [k |-> "str", v |-> str]
JList(items) == [k |-> "list", v |-> items]
JDict(pairs) == [k |-> "dict", v |-> pairs]
DateTime(epoch) == [k |-> "datetime", v |-> epoch]
PyObject(attrs) == [k |-> "object", v |-> attrs]

\* without the list branch
RECURSIVE _make_json_serializable_nolist(_)
_make_json_serializable_nolist(data) ==
    CASE data.k = "dict" ->
            JDict({<<p[1], _make_json_serializable_nolist(p[2])>> : p \in data.v})
      [] data.k = "datetime" -> JNum(data.v)
      [] data.k = "object" -> _make_json_serializable_nolist(JDict(data.v))
      [] OTHER -> data

RECURSIVE _make_json_serializable(_)
_make_json_serializable(data) ==
    CASE data.k = "dict" ->
            JDict({<<p[1], _make_json_serializable(p[2])>> : p \in data.v})
      [] data.k = "list" ->
            JList([n \in 1..Len(data.v) |-> _make_json_serializable(data.v[n])])
      [] data.k = "datetime" -> JNum(data.v)
      [] data.k = "object" -> _make_json_serializable(JDict(data.v))
      [] OTHER -> data

(***************************************************************************)
(* json.dump and json.load.  The text of a file is the sequence of its JSON *)
(* tokens (white space is not significant).                                 *)
(***************************************************************************)
Tok(t) == [k |-> t, v |-> 0]
TokNum(n) == [k |-> "num", v |-> n]
TokStr(str) == [k |-> "str", v |-> str]

\* json.dump: ok is FALSE when a value is not serializable (TypeError); text
\* is then what was written before the error
RECURSIVE Dump(_), DumpItems(_, _, _), DumpMembers(_, _, _)
Dump(value) ==
    CASE value.k = "null" -> [ok |-> TRUE, text |-> <<Tok("null")>>]
      [] value.k = "bool" -> [ok |-> TRUE, text |-> <<Tok(IF value.v THEN "true" ELSE "false")>>]
      [] value.k = "num" -> [ok |-> TRUE, text |-> <<TokNum(value.v)>>]
      [] value.k = "str" -> [ok |-> TRUE, text |-> <<TokStr(value.v)>>]
      [] value.k = "list" -> DumpItems(value.v, 1, <<Tok("[")>>)
      [] value.k = "dict" -> DumpMembers(value.v, TRUE, <<Tok("{")>>)
      [] OTHER -> [ok |-> FALSE, text |-> <<>>]

DumpItems(items, n, text) ==
    IF n > Len(items) THEN [ok |-> TRUE, text |-> Append(text, Tok("]"))]
    ELSE LET sep == IF n > 1 THEN <<Tok(",")>> ELSE <<>>
             item == Dump(items[n])
         IN IF ~item.ok THEN [ok |-> FALSE, text |-> text \o sep \o item.text]
            ELSE DumpItems(items, n + 1, text \o sep \o item.text)

DumpMembers(pairs, first, text) ==
    IF pairs = {} THEN [ok |-> TRUE, text |-> Append(text, Tok("}"))]
    ELSE LET p == CHOOSE q \in pairs : TRUE
             sep == IF first THEN <<>> ELSE <<Tok(",")>>
             key == <<TokStr(p[1]), Tok(":")>>
             item == Dump(p[2])
         IN IF ~item.ok THEN [ok |-> FALSE, text |-> text \o sep \o key \o item.text]
            ELSE DumpMembers(pairs \ {p}, FALSE, text \o sep \o key \o item.text)

\* json.load: ok is FALSE on text that is no JSON value (JSONDecodeError); i
\* is the position after the value read
ParseError == [ok |-> FALSE, v |-> JNull, i |-> 0]
IsTok(text, i, t) == i <= Len(text) /\ text[i].k = t

RECURSIVE ParseValue(_, _), ParseElements(_, _, _), ParseMembers(_, _, _)
ParseValue(text, i) ==
    IF i > Len(text) THEN ParseError
    ELSE CASE text[i].k = "null" -> [ok |-> TRUE, v |-> JNull, i |-> i + 1]
           [] text[i].k = "true" -> [ok |-> TRUE, v |-> JBool(TRUE), i |-> i + 1]
           [] text[i].k = "false" -> [ok |-> TRUE, v |-> JBool(FALSE), i |-> i + 1]
           [] text[i].k = "num" -> [ok |-> TRUE, v |-> JNum(text[i].v), i |-> i + 1]
           [] text[i].k = "str" -> [ok |-> TRUE, v |-> JStr(text[i].v), i |-> i + 1]
           [] text[i].k = "[" ->
                IF IsTok(text, i + 1, "]") THEN [ok |-> TRUE, v |-> JList(<<>>), i |-> i + 2]
                ELSE ParseElements(text, i + 1, <<>>)
           [] text[i].k = "{" ->
                IF IsTok(text, i + 1, "}") THEN [ok |-> TRUE, v |-> JDict({}), i |-> i + 2]
                ELSE ParseMembers(text, i + 1, {})
           [] OTHER -> ParseError

ParseElements(text, i, items) ==
    LET item == ParseValue(text, i)
    IN IF ~item.ok THEN ParseError
       ELSE IF IsTok(text, item.i, ",")
       THEN ParseElements(text, item.i + 1, Append(items, item.v))
       ELSE IF IsTok(text, item.i, "]")
       THEN [ok |-> TRUE, v |-> JList(Append(items, item.v)), i |-> item.i + 1]
       ELSE ParseError

ParseMembers(text, i, pairs) ==
    IF ~(IsTok(text, i, "str") /\ IsTok(text, i + 1, ":")) THEN ParseError
    ELSE LET key == text[i].v
             item == ParseValue(text, i + 2)
             members == {p \in pairs : p[1] # key} \cup {<<key, item.v>>}
         IN IF ~item.ok THEN ParseError
            ELSE IF IsTok(text, item.i, ",")
            THEN ParseMembers(text, item.i + 1, members)
            ELSE IF IsTok(text, item.i, "}")
            THEN [ok |-> TRUE, v |-> JDict(members), i |-> item.i + 1]
            ELSE ParseError

\* json.load(f) of a whole file
json_load(text) ==
    LET r == ParseValue(text, 1)
    IN IF r.ok /\ r.i = Len(text) + 1 THEN [ok |-> TRUE, v |-> r.v] ELSE [ok |-> FALSE, v |-> JNull]

(***************************************************************************)
(* The storage operations.                                                  *)
(***************************************************************************)
MaxFiles == 3
MaxTicks == 2

\* the clock advances by two hours or by half a day
TickSteps == {7200, 43200}
StoreFeeds == {<<"A">>, <<"B">>}
RawData == {"pb-bytes"}
\* a snapshot with a time value in it
StoreSnapshot ==
    JDict({<<"header", JDict({<<"timestamp", DateTime(1704067200)>>})>>,
           <<"entities", JList(<<JDict({<<"id", JStr("e1")>>})>>)>>})
SampleData == JDict({<<"sample_trips", JList(<<>>)>>})

NumFiles == Cardinality(raw_dir) + Cardinality(parsed_dir) + Cardinality(samples_dir)
Dir(data_type) ==
    CASE data_type = "raw" -> raw_dir
      [] data_type = "parsed" -> parsed_dir
      [] data_type = "samples" -> samples_dir
      [] OTHER -> {}

Returned(ret) == [ret |-> ret, raised |-> "none"]
Raised(exc) == [ret |-> RetNone, raised |-> exc]
RetPath(data_type, name) == [k |-> "path", v |-> Path(data_type, name)]

\* no storage call is under way: the caller has taken the last result
StoreIdle == scall.op = "none"

\* time passes
Tick ==
    /\ StoreIdle
    /\ ticks < MaxTicks
    /\ \E d \in TickSteps : clock' = clock + d
    /\ ticks' = ticks + 1
    /\ UNCHANGED <<validatorVars, clientVars, raw_dir, parsed_dir, samples_dir, scall>>

\* storage.save_raw_feed_data(feed_name, raw_data)
SaveRaw(feed_name, raw_data) ==
    LET filename == feed_name \o Underscore \o strftime(clock) \o ExtPb
    IN /\ raw_dir' = WriteFile(raw_dir, File(filename, clock, raw_data, feed_name))
       /\ scall' = [op |-> "save_raw_feed_data", feed_name |-> feed_name,
                    out |-> Returned(RetPath("raw", filename))]
       /\ UNCHANGED <<validatorVars, clientVars, clock, ticks, parsed_dir, samples_dir>>

\* storage.save_parsed_feed_data(feed_name, parsed_data): the file is opened
\* for writing, then json.dump writes it or raises TypeError part-way
SaveParsed(feed_name, parsed_data) ==
    LET filename == feed_name \o Underscore \o strftime(clock) \o ExtJson
        serializable_data == _make_json_serializable(parsed_data)
        dumped == Dump(serializable_data)
    IN /\ parsed_dir' = WriteFile(parsed_dir, File(filename, clock, dumped.text, feed_name))
       /\ scall' = [op |-> "save_parsed_feed_data", feed_name |-> feed_name,
                    data |-> parsed_data,
                    out |-> IF dumped.ok THEN Returned(RetPath("parsed", filename))
                            ELSE Raised("TypeError")]
       /\ UNCHANGED <<validatorVars, clientVars, clock, ticks, raw_dir, samples_dir>>

\* storage.save_sample_data(feed_name, sample_data, description); description
\* is <<>> for None
SaveSample(feed_name, sample_data, description) ==
    LET timestamp == strftime(clock)
        filename == feed_name \o SampleInfix \o timestamp \o ExtJson
        sample_with_metadata ==
            JDict({<<"description", JStr(IF description # <<>> THEN description
                                         ELSE <<"Sample data for ">> \o feed_name)>>,
                   <<"timestamp", JStr(timestamp)>>,
                   <<"feed_name", JStr(feed_name)>>,
                   <<"data", _make_json_serializable(sample_data)>>})
        dumped == Dump(sample_with_metadata)
    IN /\ samples_dir' = WriteFile(samples_dir, File(filename, clock, dumped.text, feed_name))
       /\ scall' = [op |-> "save_sample_data", feed_name |-> feed_name,
                    out |-> IF dumped.ok THEN Returned(RetPath("samples", filename))
                            ELSE Raised("TypeError")]
       /\ UNCHANGED <<validatorVars, clientVars, clock, ticks, raw_dir, parsed_dir>>

\* storage.load_parsed_feed_data(filepath); prev is the call before it
LoadParsed(filepath) ==
    LET found == {f \in Dir(filepath.dir) : f.name = filepath.name}
        loaded == IF found = {} THEN [ok |-> FALSE, v |-> JNull]
                  ELSE json_load((CHOOSE f \in found : TRUE).content)
    IN /\ scall' = [op |-> "load_parsed_feed_data", filepath |-> filepath,
                    out |-> IF loaded.ok THEN Returned([k |-> "value", v |-> loaded.v])
                            ELSE Returned(RetNone),
                    prev |-> scall]
       /\ UNCHANGED <<validatorVars, clientVars, clock, ticks, raw_dir, parsed_dir, samples_dir>>

\* storage.get_latest_file(feed_name, data_type)
GetLatestFile(feed_name, data_type) ==
    /\ scall' = [op |-> "get_latest_file", feed_name |-> feed_name, data_type |-> data_type,
                 out |-> Returned(get_latest_file(feed_name, data_type, Names(Dir(data_type))))]
    /\ UNCHANGED <<validatorVars, clientVars, clock, ticks, raw_dir, parsed_dir, samples_dir>>

\* storage.cleanup_old_files(keep_days); os.remove raises on the paths of
\* failing.  log holds what the logger is given: the paths removed and the
\* paths whose removal raised.
CleanupOldFiles(keep_days, failing) ==
    LET cutoff_timestamp == clock - keep_days * SecondsPerDay
        fails(data_type) == {q.name : q \in {r \in failing : r.dir = data_type}}
        after(data_type) == CleanDir(Dir(data_type), cutoff_timestamp, fails(data_type))
        removed == UNION {{Path(d, f.name) : f \in Dir(d) \ after(d)} :
                             d \in {"raw", "parsed", "samples"}}
        warned == UNION {{Path(d, f.name) : f \in {g \in after(d) : g.mtime < cutoff_timestamp}} :
                            d \in {"raw", "parsed", "samples"}}
    IN /\ raw_dir' = after("raw")
       /\ parsed_dir' = after("parsed")
       /\ samples_dir' = after("samples")
       /\ scall' = [op |-> "cleanup_old_files", keep_days |-> keep_days, failing |-> failing,
                    log |-> [removed |-> removed, warned |-> warned],
                    out |-> Returned(RetNone)]
       /\ UNCHANGED <<validatorVars, clientVars, clock, ticks>>

AllPaths == UNION {{Path(d, f.name) : f \in Dir(d)} : d \in {"raw", "parsed", "samples"}}

\* the caller takes the result of the call
Return ==
    /\ ~StoreIdle
    /\ scall' = NoCall
    /\ UNCHANGED <<validatorVars, clientVars, clock, ticks, raw_dir, parsed_dir, samples_dir>>

\* raw bytes are saved for channel A, samples for channel B, snapshots for both
SaveRawFile ==
    /\ StoreIdle
    /\ NumFiles < MaxFiles
    /\ \E raw_data \in RawData : SaveRaw(<<"A">>, raw_data)
SaveParsedFile ==
    /\ StoreIdle
    /\ NumFiles < MaxFiles
    /\ \E feed_name \in StoreFeeds : SaveParsed(feed_name, StoreSnapshot)
SaveSampleFile ==
    /\ StoreIdle
    /\ NumFiles < MaxFiles
    /\ \E description \in {<<>>} : SaveSample(<<"B">>, SampleData, description)
LatestFile ==
    /\ StoreIdle
    /\ \E feed_name \in StoreFeeds, data_type \in {"raw", "parsed", "samples", "other"} :
           GetLatestFile(feed_name, data_type)
Cleanup ==
    /\ StoreIdle
    /\ \E keep_days \in {0, 1}, failing \in {{}} \cup {{q} : q \in AllPaths} :
           CleanupOldFiles(keep_days, failing)

NextStore ==
    \/ Tick
    \/ SaveRawFile
    \/ SaveParsedFile
    \/ SaveSampleFile
    \/ LatestFile
    \/ Cleanup
    \/ Return

SpecStore == InitIdle /\ [][NextStore]_vars

(***************************************************************************)
(* C8: get_latest_file(channel, kind) returns nothing for an unknown kind   *)
(* or when no file name of the kind's directory starts with the channel     *)
(* and ends with the kind's extension; otherwise it returns the             *)
(* lexicographically greatest such name, which, when all these files were   *)
(* saved under that channel (at distinct seconds), is the one written last. *)
(* Among A_20240101_000000.json, A_20240102_000000.json and                 *)
(* B_20240101_120000.json it returns A_20240102_000000.json for channel A.  *)
(***************************************************************************)
ExampleA1 == <<"A", "_", "2", "0", "2", "4", "0", "1", "0", "1", "_",
               "0", "0", "0", "0", "0", "0", ".", "j", "s", "o", "n">>
ExampleA2 == <<"A", "_", "2", "0", "2", "4", "0", "1", "0", "2", "_",
               "0", "0", "0", "0", "0", "0", ".", "j", "s", "o", "n">>
ExampleB == <<"B", "_", "2", "0", "2", "4", "0", "1", "0", "1", "_",
              "1", "2", "0", "0", "0", "0", ".", "j", "s", "o", "n">>

C8_LatestIsLexMax ==
    scall.op = "get_latest_file" =>
        LET dir == Dir(scall.data_type)
            ext == IF scall.data_type = "raw" THEN ExtPb ELSE ExtJson
            matching == {f \in dir : startswith(f.name, scall.feed_name) /\ endswith(f.name, ext)}
            ret == scall.out.ret
        IN /\ scall.out.raised = "none"
           /\ IF scall.data_type \notin {"raw", "parsed", "samples"} \/ matching = {}
              THEN ret = RetNone
              ELSE /\ ret.k = "path"
                   /\ ret.v.dir = scall.data_type
                   /\ \E f \in matching :
                        /\ f.name = ret.v.name
                        /\ \A g \in matching : g.name = f.name \/ StrLess(g.name, f.name)
                        /\ (\A g \in matching : g.feed = scall.feed_name) =>
                               \A g \in matching : g = f \/ g.mtime < f.mtime
           /\ (/\ scall.data_type = "parsed"
               /\ scall.feed_name = <<"A">>
               /\ Names(parsed_dir) = {ExampleA1, ExampleA2, ExampleB}) =>
                  ret = RetPath("parsed", ExampleA2)

\* the three files of the example, queried for channel A
C8_Witness ==
    /\ scall.op = "get_latest_file"
    /\ scall.data_type = "parsed"
    /\ scall.feed_name = <<"A">>
    /\ Names(parsed_dir) = {ExampleA1, ExampleA2, ExampleB}
    /\ scall.out.ret = RetPath("parsed", ExampleA2)

(***************************************************************************)
(* C9: cleanup_old_files(keep_days) leaves, in each of the three            *)
(* directories, exactly the files whose modification time is at or after    *)
(* now - keep_days days and the files whose removal raised; it raises       *)
(* nothing, so one failing removal does not keep the other old files.       *)
(***************************************************************************)
C9_CleanupStep ==
    (scall.op = "none" /\ scall'.op = "cleanup_old_files") =>
        LET cutoff == clock - scall'.keep_days * 86400
        IN /\ scall'.out.raised = "none"
           /\ raw_dir' = {f \in raw_dir :
                 f.mtime >= cutoff \/ Path("raw", f.name) \in scall'.failing}
           /\ parsed_dir' = {f \in parsed_dir :
                 f.mtime >= cutoff \/ Path("parsed", f.name) \in scall'.failing}
           /\ samples_dir' = {f \in samples_dir :
                 f.mtime >= cutoff \/ Path("samples", f.name) \in scall'.failing}

C9_CleanupRemovesOld == [][C9_CleanupStep]_vars

\* one old file could not be removed, another old file was removed, and a
\* file saved exactly at the cutoff is still there
C9_Witness ==
    /\ scall.op = "cleanup_old_files"
    /\ scall.log.warned # {}
    /\ scall.log.removed # {}
    /\ \E d \in {"raw", "parsed", "samples"} : \E f \in Dir(d) :
           f.mtime = clock - scall.keep_days * 86400

(***************************************************************************)
(* Saving a snapshot and loading it back.  The values saved: atoms, lists   *)
(* of atoms, dictionaries of atoms and of lists, lists of dictionaries, and *)
(* snapshot-like dictionaries of a header and a list of entities.           *)
(***************************************************************************)
MaxList == 2

\* a bytes object: json.dump raises TypeError on it
PyBytes == [k |-> "bytes", v |-> 0]
\* the time values are 2024-01-01 00:00:00 and 00:01:01 UTC
Atoms == {JNull, JBool(TRUE), JNum(7), JStr("x"), DateTime(1704067200),
          PyBytes, PyObject({<<"x", JNum(1)>>})}
ListAtoms == {JNull, JNum(7), DateTime(1704067261), PyBytes}
AtomLists == {JList(items) : items \in SeqsUpTo(ListAtoms, MaxList)}
DictValues == (Atoms \ {JBool(TRUE)}) \cup {JList(<<>>), JList(<<DateTime(1704067200), DateTime(1704067261)>>)}
\* fn maps each key to a value or to "absent"
DictOf(keys, fn) == JDict({<<key, fn[key]>> : key \in {q \in keys : fn[q] # JStr("absent")}})
FlatDicts == {DictOf({"a", "b"}, fn) : fn \in [{"a", "b"} -> DictValues \cup {JStr("absent")}]}
EntityDicts == {JDict({<<"id", JStr("e1")>>}),
                JDict({<<"id", JStr("e2")>>, <<"time", DateTime(1704067261)>>}),
                JDict({<<"id", JStr("e3")>>, <<"raw", PyBytes>>})}
EntityLists == {JList(items) : items \in SeqsUpTo(EntityDicts, MaxList)}
HeaderDicts == {JDict({}), JDict({<<"timestamp", DateTime(1704067200)>>}), JDict({<<"timestamp", JNum(0)>>})}
SnapshotDicts ==
    {JDict({<<"header", h>>, <<"entities", e>>}) : h \in HeaderDicts, e \in EntityLists}
RoundTripValues == Atoms \cup AtomLists \cup FlatDicts \cup EntityLists \cup SnapshotDicts

\* save_parsed_feed_data("A", data) by a caller that holds no result
RTSave ==
    /\ StoreIdle
    /\ \E data \in RoundTripValues : SaveParsed(<<"A">>, data)

\* load_parsed_feed_data on the path save_parsed_feed_data returned, or, when
\* it raised, on the file it left behind
RTLoad ==
    /\ scall.op = "save_parsed_feed_data"
    /\ \E f \in parsed_dir : LoadParsed(Path("parsed", f.name))

NextRoundTrip ==
    \/ RTSave
    \/ RTLoad
    \/ Return

SpecRoundTrip == InitIdle /\ [][NextRoundTrip]_vars

\* a value json can represent, with time values allowed anywhere in it
RECURSIVE JsonCompatible(_)
JsonCompatible(value) ==
    CASE value.k \in {"null", "bool", "num", "str", "datetime"} -> TRUE
      [] value.k = "list" -> \A n \in 1..Len(value.v) : JsonCompatible(value.v[n])
      [] value.k = "dict" -> \A p \in value.v : JsonCompatible(p[2])
      [] OTHER -> FALSE

\* the value with every time value replaced by its epoch-second number
RECURSIVE Projection(_)
Projection(value) ==
    CASE value.k = "datetime" -> JNum(value.v)
      [] value.k = "list" -> JList([n \in 1..Len(value.v) |-> Projection(value.v[n])])
      [] value.k = "dict" -> JDict({<<p[1], Projection(p[2])>> : p \in value.v})
      [] OTHER -> value

RECURSIVE HasDateTime(_)
HasDateTime(value) ==
    CASE value.k = "datetime" -> TRUE
      [] value.k = "list" -> \E n \in 1..Len(value.v) : HasDateTime(value.v[n])
      [] value.k = "dict" -> \E p \in value.v : HasDateTime(p[2])
      [] OTHER -> FALSE

(***************************************************************************)
(* C10: save_parsed_feed_data of a JSON-compatible value, time values       *)
(* allowed in it, returns a path, and load_parsed_feed_data on that path    *)
(* returns the value with every time value replaced by its epoch-second     *)
(* number.                                                                  *)
(***************************************************************************)
C10_RoundTrip ==
    /\ (scall.op = "save_parsed_feed_data" /\ JsonCompatible(scall.data)) =>
           /\ scall.out.raised = "none"
           /\ scall.out.ret.k = "path"
    /\ (/\ scall.op = "load_parsed_feed_data"
        /\ scall.prev.op = "save_parsed_feed_data"
        /\ JsonCompatible(scall.prev.data)) =>
           /\ scall.filepath = scall.prev.out.ret.v
           /\ scall.out = Returned([k |-> "value", v |-> Projection(scall.prev.data)])

\* a snapshot with a time value in its header and one in a list of entities
\* came back with numbers in their place
C10_Witness ==
    /\ scall.op = "load_parsed_feed_data"
    /\ scall.prev.op = "save_parsed_feed_data"
    /\ scall.prev.data \in SnapshotDicts
    /\ JsonCompatible(scall.prev.data)
    /\ \A p \in scall.prev.data.v : HasDateTime(p[2])
    /\ scall.out.ret.k = "value"
    /\ ~HasDateTime(scall.out.ret.v)
    /\ scall.out.ret.v # scall.prev.data

(***************************************************************************)
(* Saves that may fall in the same second: channel A, two different         *)
(* contents of each kind, with loads and cleanups in between.               *)
(***************************************************************************)
RawContents == {"pb-bytes", "pb-other"}
ParsedContents == {StoreSnapshot, JDict({})}
SampleContents == {SampleData, JDict({})}

SaveRawAgain ==
    /\ StoreIdle
    /\ NumFiles < MaxFiles
    /\ \E raw_data \in RawContents : SaveRaw(<<"A">>, raw_data)
SaveParsedAgain ==
    /\ StoreIdle
    /\ NumFiles < MaxFiles
    /\ \E parsed_data \in ParsedContents : SaveParsed(<<"A">>, parsed_data)
SaveSampleAgain ==
    /\ StoreIdle
    /\ NumFiles < MaxFiles
    /\ \E sample_data \in SampleContents : SaveSample(<<"A">>, sample_data, <<>>)
LoadAny ==
    /\ StoreIdle
    /\ \E f \in parsed_dir : LoadParsed(Path("parsed", f.name))

NextOverwrite ==
    \/ Tick
    \/ SaveRawAgain
    \/ SaveParsedAgain
    \/ SaveSampleAgain
    \/ LoadAny
    \/ Cleanup
    \/ Return

SpecOverwrite == InitIdle /\ [][NextOverwrite]_vars

(***************************************************************************)
(* C11: a stored file is immutable: in every step, a file that is still     *)
(* there afterwards holds the content it held before, and a file is gone    *)
(* afterwards only if the step is a cleanup.                                *)
(***************************************************************************)
C11_Step ==
    \A d \in {"raw", "parsed", "samples"} : \A f \in Dir(d) :
        LET after == CASE d = "raw" -> raw_dir'
                       [] d = "parsed" -> parsed_dir'
                       [] OTHER -> samples_dir'
            same == {g \in after : g.name = f.name}
        IN /\ \A g \in same : g.content = f.content
           /\ same = {} => scall'.op = "cleanup_old_files"

C11_StoredFilesImmutable == [][C11_Step]_vars

\* the messages of list msgs with text text about item i
CountAt(msgs, text, i) == Cardinality({n \in 1..Len(msgs) : msgs[n].m = text /\ msgs[n].i = i})
\* the messages of list msgs with text text about item j of item i
CountAtJ(msgs, text, i, j) ==
    Cardinality({n \in 1..Len(msgs) : msgs[n].m = text /\ msgs[n].i = i /\ msgs[n].j = j})

\* the vehicles list of a snapshot that passed the structural check
VehiclesChecked == Validated /\ HasTimestamp(vcall.feed_data) /\ vcall.feed_data.vehicles.k = "list"
BothCoordinates(vehicle) ==
    /\ vehicle.isdict
    /\ vehicle.position.k = "dict"
    /\ vehicle.position.latitude.k = "val"
    /\ vehicle.position.longitude.k = "val"

(***************************************************************************)
(* C13: a vehicle of the vehicles list whose position has latitude and      *)
(* longitude gets exactly one 'outside NYC area' warning if the point is    *)
(* outside 40.4 <= latitude <= 40.9, -74.3 <= longitude <= -73.7 and no     *)
(* position warning otherwise; (40.75, -73.98) gets none, (0, 0) gets one.  *)
(***************************************************************************)
C13_Geofence ==
    VehiclesChecked =>
        \A n \in 1..Len(vcall.feed_data.vehicles.v) :
            LET vehicle == vcall.feed_data.vehicles.v[n]
                lat == vehicle.position.latitude.v
                lon == vehicle.position.longitude.v
                outside == lat < 4040 \/ lat > 4090 \/ lon < -7430 \/ lon > -7370
                warned == CountAt(vcall.ret.warnings, "Vehicle position outside NYC area", n - 1)
            IN BothCoordinates(vehicle) =>
                  /\ warned = (IF outside THEN 1 ELSE 0)
                  /\ CountAt(vcall.ret.warnings, "Vehicle missing position coordinates", n - 1) = 0
                  /\ CountAt(vcall.ret.errors, "Vehicle position outside NYC area", n - 1) = 0
                  /\ (lat = 4075 /\ lon = -7398) => warned = 0
                  /\ (lat = 0 /\ lon = 0) => warned = 1

\* a vehicle on the border of the box next to one at (0, 0)
C13_Witness ==
    /\ VehiclesChecked
    /\ vcall.feed_data.vehicles.v = <<VehEdge, VehOrigin>>
    /\ CountAt(vcall.ret.warnings, "Vehicle position outside NYC area", 0) = 0
    /\ CountAt(vcall.ret.warnings, "Vehicle position outside NYC area", 1) = 1

(***************************************************************************)
(* C14: a vehicle whose position is present and lacks the latitude, the     *)
(* longitude or both gets a position warning.                               *)
(***************************************************************************)
C14_MissingCoordinateWarns ==
    VehiclesChecked =>
        \A n \in 1..Len(vcall.feed_data.vehicles.v) :
            LET vehicle == vcall.feed_data.vehicles.v[n]
            IN (/\ vehicle.isdict
                /\ vehicle.position.k = "dict"
                /\ \/ vehicle.position.latitude.k # "val"
                   \/ vehicle.position.longitude.k # "val") =>
                   CountAt(vcall.ret.warnings, "Vehicle missing position coordinates", n - 1)
                     + CountAt(vcall.ret.warnings, "Vehicle position outside NYC area", n - 1) >= 1

(***************************************************************************)
(* C15: for a trips list of dictionaries whose stop_time_updates, where     *)
(* given, are lists of dictionaries, the trips check appends no error and   *)
(* appends, trip after trip, one warning for a missing or empty trip_id,    *)
(* one for a missing or empty route_id, and then, stop update after stop    *)
(* update, one for a missing or empty stop_id and one when neither an       *)
(* arrival nor a departure time is given.                                   *)
(***************************************************************************)
WellTypedTrip(trip) ==
    /\ trip.isdict
    /\ trip.stop_time_updates.k \in {"absent", "list"}
    /\ \A j \in 1..Len(trip.stop_time_updates.v) : trip.stop_time_updates.v[j].isdict

Missing(field) == field.k # "val" \/ field.v = ""
NoTime(field) == field.k # "val" \/ field.v = 0

\* the warnings about stop update j (counted from 1) of trip i (counted from 0)
UpdateWarnings(update, i, j) ==
    (IF Missing(update.stop_id)
     THEN <<Msg("stop update missing stop_id", i, j - 1, "")>> ELSE <<>>)
    \o (IF NoTime(update.arrival_time) /\ NoTime(update.departure_time)
        THEN <<Msg("stop update missing timing information", i, j - 1, "")>> ELSE <<>>)

RECURSIVE Concat(_, _)
\* f[1] \o ... \o f[n]
Concat(f, n) == IF n = 0 THEN <<>> ELSE Concat(f, n - 1) \o f[n]

\* the warnings about trip i (counted from 0)
TripWarnings(trip, i) ==
    (IF Missing(trip.trip_id)
     THEN <<Msg("Trip missing required field", i, 0, "trip_id")>> ELSE <<>>)
    \o (IF Missing(trip.route_id)
        THEN <<Msg("Trip missing required field", i, 0, "route_id")>> ELSE <<>>)
    \o Concat([j \in 1..Len(trip.stop_time_updates.v) |->
                  UpdateWarnings(trip.stop_time_updates.v[j], i, j)],
              Len(trip.stop_time_updates.v))

TripTexts == {"Trip missing required field", "stop update missing stop_id",
              "stop update missing timing information", "Trips data must be a list",
              "Trip must be a dictionary", "stop_time_updates must be a list",
              "stop update must be a dictionary"}

C15_TripChecksOnlyWarn ==
    (/\ Validated
     /\ HasTimestamp(vcall.feed_data)
     /\ vcall.feed_data.trips.k = "list"
     /\ \A n \in 1..Len(vcall.feed_data.trips.v) : WellTypedTrip(vcall.feed_data.trips.v[n])) =>
        LET trips == vcall.feed_data.trips.v
        IN /\ SelectSeq(vcall.ret.warnings, LAMBDA msg : msg.m \in TripTexts)
                = Concat([n \in 1..Len(trips) |-> TripWarnings(trips[n], n - 1)], Len(trips))
           /\ SelectSeq(vcall.ret.errors, LAMBDA msg : msg.m \in TripTexts) = <<>>

\* a trip without route_id, then a trip with three stop updates of which the
\* first and the third each get both warnings
C15_Witness ==
    /\ Validated
    /\ HasTimestamp(vcall.feed_data)
    /\ vcall.feed_data.trips = List(<<TripNoRoute, TripUnsetStops>>)
    /\ Len(SelectSeq(vcall.ret.warnings, LAMBDA msg : msg.m \in TripTexts)) = 6
    /\ vcall.ret.is_valid

(***************************************************************************)
(* C16: when a snapshot that passes the structural check carries an         *)
(* entities list, every entity (dictionary) without id adds exactly one     *)
(* error, so the result is invalid, and the warning 'no trip or vehicle     *)
(* data' is given exactly when no entity has a trip_update and no entity    *)
(* has a vehicle; the call returns whatever payloads the entities lack.     *)
(***************************************************************************)
EntitiesChecked == Validated /\ HasTimestamp(vcall.feed_data) /\ vcall.feed_data.entities.k = "list"

C16_EntityListChecks ==
    EntitiesChecked =>
        LET entities == vcall.feed_data.entities.v
            lacking == {n \in 1..Len(entities) : entities[n].isdict /\ entities[n].id.k = "absent"}
            payloads == {n \in 1..Len(entities) :
                            /\ entities[n].isdict
                            /\ \/ entities[n].trip_update.k # "absent"
                               \/ entities[n].vehicle.k # "absent"}
        IN /\ \A n \in 1..Len(entities) :
                 CountAt(vcall.ret.errors, "Entity missing id field", n - 1)
                     = (IF n \in lacking THEN 1 ELSE 0)
           /\ lacking # {} => ~vcall.ret.is_valid
           /\ Count(vcall.ret.warnings, "Feed contains no trip or vehicle data")
                 = (IF payloads = {} THEN 1 ELSE 0)
           /\ Count(vcall.ret.errors, "Feed contains no trip or vehicle data") = 0

\* an alert-only entity and a payload-less one: one warning, still valid
C16_Witness ==
    /\ EntitiesChecked
    /\ vcall.feed_data.entities = List(<<EntAlert, EntEmpty>>)
    /\ Count(vcall.ret.warnings, "Feed contains no trip or vehicle data") = 1
    /\ vcall.ret.is_valid

(***************************************************************************)
(* DataValidator.get_data_statistics and validate_line_coverage, for        *)
(* snapshots whose trips, vehicles and entities are lists of dictionaries   *)
(* (or are not given).                                                      *)
(***************************************************************************)
\* for x in container: the items of a list, none when the key is not there
Items(container) == IF container.k = "list" THEN container.v ELSE <<>>
SeqRange(seq) == {seq[n] : n \in 1..Len(seq)}
\* the truthy route_id values of the items of seq (field route_id of item.v
\* under payload when payload is given)
RoutesOfTrips(trips) ==
    {trip.route_id.v : trip \in {t \in SeqRange(trips) : HasKey(t.route_id) /\ TruthyStr(t.route_id)}}
RoutesOfPayload(entities, payload) ==
    {entity[payload].v.route_id.v :
        entity \in {e \in SeqRange(entities) :
                       e[payload].k # "absent" /\ TruthyStr(e[payload].v.route_id)}}
HowMany(entities, payload) ==
    Cardinality({n \in 1..Len(entities) : entities[n][payload].k # "absent"})

\* feed_data['header'].get('timestamp') or feed_data['last_update'] or None
StatsLastUpdate(fd) ==
    IF fd.header.k # "absent"
    THEN (IF HasKey(fd.header.timestamp) THEN fd.header.timestamp ELSE PyNone)
    ELSE IF HasKey(fd.last_update) THEN fd.last_update ELSE PyNone

\* routes_covered is the set the final list is made of; data_age_minutes is
\* the quotient <<seconds, 60>>
get_data_statistics(fd, now) ==
    LET last_update == StatsLastUpdate(fd)
        entities == Items(fd.entities)
    IN [total_trips |-> Len(Items(fd.trips)) + HowMany(entities, "trip_update"),
        total_vehicles |-> Len(Items(fd.vehicles)) + HowMany(entities, "vehicle"),
        total_alerts |-> HowMany(entities, "alert"),
        routes_covered |-> RoutesOfTrips(Items(fd.trips)) \cup RoutesOfPayload(entities, "trip_update"),
        last_update |-> last_update,
        data_age_minutes |-> IF TruthyNum(last_update)
                             THEN [k |-> "val", v |-> <<now - last_update.v, 60>>] ELSE PyNone]

\* found_lines after the two loops of validate_line_coverage
FoundLines(fd) ==
    RoutesOfTrips(Items(fd.trips))
        \cup RoutesOfPayload(Items(fd.entities), "trip_update")
        \cup RoutesOfPayload(Items(fd.entities), "vehicle")

validate_line_coverage(fd, expected_lines) ==
    LET found_lines == FoundLines(fd)
        missing_lines == SelectSeq(expected_lines, LAMBDA line : line \notin found_lines)
    IN [has_coverage |-> Len(missing_lines) = 0, missing_lines |-> missing_lines]

\* the snapshots statistics and coverage are asked of: both forms, and the
\* two forms side by side
StatTrips == {TripOK, TripNoRoute, TripStopsNotList}
StatVehicles == {VehInside, VehOrigin, VehEdge}
EntBoth == Entity(Str("e7"), [k |-> "val", v |-> TripStopsNotList],
                  [k |-> "val", v |-> VehLatOnly], FALSE)
StatEntities == {EntTrip, EntTripNoRoute, EntVehicle, EntAlert, EntEmpty, EntBoth}
ListsOf(S, n) == {NoList} \cup {List(s) : s \in SeqsUpTo(S, n)}
StatHeaders == {<<Header(Num(100000 - 61)), Absent>>, <<Header(Absent), Absent>>,
                <<NoHeader, Num(100000 - 2400)>>, <<NoHeader, Absent>>}
FewStatSnapshots ==
    {FeedData(Header(Num(100000 - 61)), Absent, c[1], c[2], c[3]) :
        c \in {<<NoList, NoList, NoList>>,
               <<List(<<TripOK>>), List(<<VehOrigin>>), NoList>>,
               <<NoList, List(<<VehInside, VehOrigin>>), NoList>>,
               <<NoList, NoList, List(<<EntTrip, EntVehicle>>)>>,
               <<List(<<TripOK>>), List(<<VehInside>>), List(<<EntTrip, Entity(Str("e8"), NoTrip, [k |-> "val", v |-> VehInside], FALSE)>>)>>,
               <<List(<<TripNoRoute>>), NoList, List(<<EntBoth, EntAlert>>)>>}}
ExpectedRoutes == {"L", "N", "Q", "7"}

\* validator.get_data_statistics(feed_data) at time now
GetDataStatistics(fd, now) ==
    /\ vcall' = [op |-> "get_data_statistics", feed_data |-> fd, now |-> now,
                 ret |-> get_data_statistics(fd, now)]
    /\ UNCHANGED <<validation_errors, validation_warnings, reuseVars, threadVars, clientVars, storeVars>>

\* validator.validate_line_coverage(feed_data, expected_lines)
ValidateLineCoverage(fd, expected_lines) ==
    /\ vcall' = [op |-> "validate_line_coverage", feed_data |-> fd,
                 expected_lines |-> expected_lines,
                 ret |-> validate_line_coverage(fd, expected_lines)]
    /\ UNCHANGED <<validation_errors, validation_warnings, reuseVars, threadVars, clientVars, storeVars>>

\* statistics of trips and vehicles lists with few entities
StatisticsOfLists ==
    /\ FirstCall
    /\ \E h \in StatHeaders, t \in ListsOf(StatTrips, MaxItems), v \in ListsOf(StatVehicles, 1),
          e \in {NoList, List(<<EntTrip>>), List(<<EntTrip, EntVehicle>>)}, now \in Nows :
           GetDataStatistics(FeedData(h[1], h[2], t, v, e), now)

\* statistics of entity lists with few trips and vehicles
StatisticsOfEntities ==
    /\ FirstCall
    /\ \E t \in {NoList, List(<<TripOK>>)}, v \in {NoList, List(<<VehInside>>)},
          e \in ListsOf(StatEntities, MaxItems) :
           GetDataStatistics(FeedData(Header(Num(100000 - 61)), Absent, t, v, e), 100000)

CoverageOfSnapshots ==
    /\ FirstCall
    /\ \E fd \in FewStatSnapshots, expected_lines \in SeqsUpTo(ExpectedRoutes, MaxItems) :
           ValidateLineCoverage(fd, expected_lines)

NextStatistics ==
    \/ StatisticsOfLists
    \/ StatisticsOfEntities
    \/ CoverageOfSnapshots

SpecStatistics == InitIdle /\ [][NextStatistics]_vars

(***************************************************************************)
(* C17: when a snapshot carries a trips list of n items and also m          *)
(* entities with a trip_update, total_trips of get_data_statistics is n or  *)
(* m, not n + m; likewise total_vehicles for the vehicles list and the      *)
(* entities with a vehicle.                                                 *)
(***************************************************************************)
C17_NoDoubleCounting ==
    vcall.op = "get_data_statistics" =>
        LET fd == vcall.feed_data
            entities == Items(fd.entities)
            n == Len(Items(fd.trips))
            m == Cardinality({i \in 1..Len(entities) : entities[i].trip_update.k = "val"})
            nv == Len(Items(fd.vehicles))
            mv == Cardinality({i \in 1..Len(entities) : entities[i].vehicle.k = "val"})
        IN /\ (n > 0 /\ m > 0) => vcall.ret.total_trips \in {n, m}
           /\ (nv > 0 /\ mv > 0) => vcall.ret.total_vehicles \in {nv, mv}

(***************************************************************************)
(* C18: validate_line_coverage(snapshot, expected) reports as missing       *)
(* exactly the expected routes that are the route id of no trip and of no   *)
(* vehicle of the snapshot, in the trips and vehicles lists and in the      *)
(* entities, and has_coverage is true exactly when nothing is missing.      *)
(***************************************************************************)
C18_CoverageOverAllRoutes ==
    vcall.op = "validate_line_coverage" =>
        LET fd == vcall.feed_data
            entities == Items(fd.entities)
            listed == Items(fd.trips) \o Items(fd.vehicles)
            carried == {i \in 1..Len(entities) : entities[i].trip_update.k = "val"}
            moving == {i \in 1..Len(entities) : entities[i].vehicle.k = "val"}
            touched == {listed[i].route_id.v : i \in {q \in 1..Len(listed) : listed[q].route_id.k = "val"}}
                       \cup {entities[i].trip_update.v.route_id.v : i \in carried}
                       \cup {entities[i].vehicle.v.route_id.v : i \in moving}
        IN /\ vcall.ret.missing_lines
                 = SelectSeq(vcall.expected_lines, LAMBDA line : line \notin touched)
           /\ vcall.ret.has_coverage <=> vcall.ret.missing_lines = <<>>
           /\ vcall.ret.has_coverage <=>
                 \A i \in 1..Len(vcall.expected_lines) : vcall.expected_lines[i] \in touched

(***************************************************************************)
(* C19: parse_feed_data maps the upstream entities, in order, to as many    *)
(* output entities with the same ids, and an output entity carries the      *)
(* trip_update, the vehicle or the alert its upstream entity has, one of    *)
(* the three at most, and none when the upstream entity has none.           *)
(***************************************************************************)
PayloadsOf(entity) ==
    {p \in {"trip_update", "vehicle", "alert"} : entity[p].k = "val"}

C19_OneVariantPerEntity ==
    (ccall.op = "parse_feed_data" /\ ccall.feed_data.kind = "message") =>
        LET upstream == ccall.feed_data.msg.entity
        IN /\ ccall.out.raised = "none"
           /\ ccall.out.ret.k = "dict"
           /\ ccall.out.ret.v.entities.k = "list"
           /\ LET entities == ccall.out.ret.v.entities.v
              IN /\ Len(entities) = Len(upstream)
                 /\ \A n \in 1..Len(upstream) :
                       /\ entities[n].id = Str(upstream[n].id)
                       /\ PayloadsOf(entities[n]) = PayloadsOf(upstream[n])
                       /\ Cardinality(PayloadsOf(entities[n])) <= 1

(***************************************************************************)
(* The pipeline of test_client.py: a feed message is parsed and the         *)
(* snapshot parse_feed_data returns is validated.                           *)
(***************************************************************************)
ValidateParsed ==
    /\ FirstCall
    /\ ccall.op = "parse_feed_data"
    /\ ccall.out.ret.k = "dict"
    /\ \E now \in Nows : ValidateFeedData(ccall.out.ret.v, now)

NextPipeline ==
    \/ ParseFeedData
    \/ ValidateParsed

SpecPipeline == InitIdle /\ [][NextPipeline]_vars

\* the number of warnings the per-trip checks owe a parsed trip update
TripDefects(trip) ==
    Len(TripWarnings(trip, 0))

(***************************************************************************)
(* C20: for the snapshot parse_feed_data returns (header and entities, no   *)
(* trips key), validate_feed_data gives a warning for every trip-update     *)
(* entity without trip_id or without route_id and for every stop-time       *)
(* update of it without stop_id or without both times.                      *)
(***************************************************************************)
C20_ParsedTripsChecked ==
    (/\ Validated
     /\ ccall.op = "parse_feed_data"
     /\ vcall.feed_data = ccall.out.ret.v
     /\ HasTimestamp(vcall.feed_data)) =>
        LET entities == vcall.feed_data.entities.v
        IN \A n \in 1..Len(entities) :
              (entities[n].trip_update.k = "val" /\ TripDefects(entities[n].trip_update.v) > 0) =>
                  Len(SelectSeq(vcall.ret.warnings, LAMBDA msg : msg.m \in TripTexts))
                      >= TripDefects(entities[n].trip_update.v)

(***************************************************************************)
(* One DataValidator used for several snapshots in turn, with statistics    *)
(* and coverage asked in between; the caller keeps the lists it was given.  *)
(***************************************************************************)
MaxCalls == 2

ReuseSnapshots ==
    {NotADict,
     FeedData(NoHeader, Absent, List(<<TripBadStops>>), NoList, NoList),
     FeedData(NoHeader, Num(100000 - 2400), List(<<TripNoRoute>>), List(<<VehOrigin>>), NoList),
     FeedData(Header(Num(100000 - 61)), Absent, NoList, NoList, List(<<EntTrip>>)),
     FeedData(Header(Num(100000 - 61)), Absent, NoList, NoList, List(<<EntNoId, EntNotDict>>))}

ValidateAgain ==
    /\ Len(returned) < MaxCalls
    /\ \E fd \in ReuseSnapshots, now \in Nows : ValidateFeedData(fd, now)

StatisticsBetween ==
    /\ vcall.op # "get_data_statistics"
    /\ \E fd \in FewStatSnapshots : GetDataStatistics(fd, 100000)

CoverageBetween ==
    /\ vcall.op # "validate_line_coverage"
    /\ \E fd \in FewStatSnapshots, expected_lines \in {<<"L">>, <<"L", "7">>} :
           ValidateLineCoverage(fd, expected_lines)

NextReuse ==
    \/ ValidateAgain
    \/ StatisticsBetween
    \/ CoverageBetween

SpecReuse == InitIdle /\ [][NextReuse]_vars

\* what validate_feed_data returns on a DataValidator just constructed
FreshReturn(fd, now) ==
    LET st == ResetLists(NewLists.heap, NewLists.refs)
        h == ListsAfter(st, validate_feed_data(fd, now))
    IN [errors |-> h[st.refs.errors], warnings |-> h[st.refs.warnings]]

(***************************************************************************)
(* C12: the lists every validate_feed_data call of the instance returned    *)
(* hold, at its return and after every later call of validate_feed_data,    *)
(* get_data_statistics and validate_line_coverage, exactly the errors and   *)
(* the warnings a new instance returns for that snapshot.                   *)
(***************************************************************************)
C12_NoStateLeak ==
    /\ \A n \in 1..Len(returned) :
          LET fresh == FreshReturn(returned[n].feed_data, returned[n].now)
          IN /\ heap[returned[n].errors] = fresh.errors
             /\ heap[returned[n].warnings] = fresh.warnings
    /\ Validated =>
          /\ vcall.ret.errors = FreshReturn(vcall.feed_data, vcall.now).errors
          /\ vcall.ret.warnings = FreshReturn(vcall.feed_data, vcall.now).warnings

\* a snapshot with errors and warnings, then a clean one, then statistics:
\* the first call's lists still hold their messages, the second's are empty
C12_Witness ==
    /\ Len(returned) = 2
    /\ vcall.op = "get_data_statistics"
    /\ heap[returned[1].errors] # <<>>
    /\ heap[returned[2].errors] = <<>>
    /\ heap[returned[2].warnings] = <<>>
    /\ returned[1].feed_data.isdict
    /\ returned[1].errors # returned[2].errors

(***************************************************************************)
(* Two threads call validate_feed_data on one DataValidator.  A thread can  *)
(* be switched out between the statements of validate_feed_data; every      *)
(* statement reads self.validation_errors and self.validation_warnings      *)
(* when it runs, so it appends to, and returns, the lists self names then.  *)
(***************************************************************************)
ThreadSnapshots ==
    {NotADict,
     FeedData(NoHeader, Num(100000 - 2400), List(<<TripNoRoute>>), List(<<VehOrigin>>), NoList),
     FeedData(Header(Num(100000 - 61)), Absent, NoList, NoList, List(<<EntTrip>>)),
     FeedData(Header(Num(100000 - 61)), Absent, NoList, NoList, List(<<EntNoId, EntNotDict>>))}

At(t, pc) == threads[t].pc = pc
Goto(t, pc) == threads' = [threads EXCEPT ![t].pc = pc]

\* the messages of one check are appended to the lists self names now
SelfAppend(acc) ==
    /\ heap' = ListsAfter([heap |-> heap, refs |-> refs], acc)
    /\ validation_errors' = heap'[refs.errors]
    /\ validation_warnings' = heap'[refs.warnings]
    /\ UNCHANGED refs

\* the thread enters validate_feed_data(feed_data) at time now
ThreadCall(t) ==
    /\ At(t, "idle")
    /\ \E fd \in ThreadSnapshots :
           threads' = [threads EXCEPT ![t] = [pc |-> "reset", feed_data |-> fd, now |-> 100000]]
    /\ UNCHANGED <<validation_errors, validation_warnings, vcall, reuseVars, clientVars, storeVars>>

\* lines 29-30
ThreadReset(t) ==
    /\ At(t, "reset")
    /\ LET st == ResetLists(heap, refs)
       IN /\ heap' = st.heap
          /\ refs' = st.refs
          /\ validation_errors' = <<>>
          /\ validation_warnings' = <<>>
    /\ Goto(t, "structure")
    /\ UNCHANGED <<vcall, returned, clientVars, storeVars>>

\* lines 33-34: a failed check goes to the early return
ThreadStructure(t) ==
    /\ At(t, "structure")
    /\ LET s == _validate_basic_structure(EmptyAcc, threads[t].feed_data)
       IN /\ SelfAppend(s.acc)
          /\ Goto(t, IF s.ok THEN "freshness" ELSE "return_false")
    /\ UNCHANGED <<vcall, returned, clientVars, storeVars>>

\* line 37
ThreadFreshness(t) ==
    /\ At(t, "freshness")
    /\ SelfAppend(_validate_timestamp_freshness(EmptyAcc, threads[t].feed_data, threads[t].now))
    /\ Goto(t, "trips")
    /\ UNCHANGED <<vcall, returned, clientVars, storeVars>>

\* lines 40-41
ThreadTrips(t) ==
    /\ At(t, "trips")
    /\ LET fd == threads[t].feed_data
       IN SelfAppend(IF fd.trips.k # "absent"
                     THEN _validate_trips_data(EmptyAcc, fd.trips) ELSE EmptyAcc)
    /\ Goto(t, "vehicles")
    /\ UNCHANGED <<vcall, returned, clientVars, storeVars>>

\* lines 44-45
ThreadVehicles(t) ==
    /\ At(t, "vehicles")
    /\ LET fd == threads[t].feed_data
       IN SelfAppend(IF fd.vehicles.k # "absent"
                     THEN _validate_vehicles_data(EmptyAcc, fd.vehicles) ELSE EmptyAcc)
    /\ Goto(t, "entities")
    /\ UNCHANGED <<vcall, returned, clientVars, storeVars>>

\* lines 48-49
ThreadEntities(t) ==
    /\ At(t, "entities")
    /\ LET fd == threads[t].feed_data
       IN SelfAppend(IF fd.entities.k # "absent"
                     THEN _validate_entities_data(EmptyAcc, fd.entities) ELSE EmptyAcc)
    /\ Goto(t, "return")
    /\ UNCHANGED <<vcall, returned, clientVars, storeVars>>

\* line 34 (is_valid False) and lines 51-52 (is_valid from the list self
\* names): the tuple holds the list objects self names at the return
ThreadReturn(t) ==
    /\ At(t, "return") \/ At(t, "return_false")
    /\ LET errors == heap[refs.errors]
           warnings == heap[refs.warnings]
           ret == [is_valid |-> At(t, "return") /\ Len(errors) = 0,
                   errors |-> errors, warnings |-> warnings]
       IN /\ threads' = [threads EXCEPT ![t] = [pc |-> "done", feed_data |-> threads[t].feed_data,
                                                now |-> threads[t].now, ret |-> ret]]
          /\ returned' = Append(returned, [feed_data |-> threads[t].feed_data,
                                           now |-> threads[t].now,
                                           errors |-> refs.errors,
                                           warnings |-> refs.warnings])
          /\ vcall' = [op |-> "validate_feed_data", feed_data |-> threads[t].feed_data,
                       now |-> threads[t].now, ret |-> ret]
    /\ UNCHANGED <<validation_errors, validation_warnings, heap, refs, clientVars, storeVars>>

NextThreads ==
    \/ \E t \in ThreadIds : ThreadCall(t)
    \/ \E t \in ThreadIds : ThreadReset(t)
    \/ \E t \in ThreadIds : ThreadStructure(t)
    \/ \E t \in ThreadIds : ThreadFreshness(t)
    \/ \E t \in ThreadIds : ThreadTrips(t)
    \/ \E t \in ThreadIds : ThreadVehicles(t)
    \/ \E t \in ThreadIds : ThreadEntities(t)
    \/ \E t \in ThreadIds : ThreadReturn(t)

SpecThreads == InitIdle /\ [][NextThreads]_vars

(***************************************************************************)
(* C21: a validate_feed_data call that has returned, whatever the other     *)
(* thread did meanwhile on the same instance, returned exactly the errors   *)
(* and the warnings of its own snapshot, and is_valid tells whether its own *)
(* snapshot has no error.                                                   *)
(***************************************************************************)
C21_InterleavedCallsIsolated ==
    \A t \in ThreadIds :
        At(t, "done") =>
            LET own == FreshReturn(threads[t].feed_data, threads[t].now)
            IN /\ threads[t].ret.errors = own.errors
               /\ threads[t].ret.warnings = own.warnings
               /\ threads[t].ret.is_valid = (own.errors = <<>>)

(***************************************************************************)
(* Snapshots saved under a channel and under the names derived from it, as  *)
(* test_single_feed does ('l', 'l_standard', 'l_nyct'), and samples.        *)
(***************************************************************************)
ChannelL == <<"l">>
DerivedFeeds ==
    {ChannelL,
     ChannelL \o <<"_", "s", "t", "a", "n", "d", "a", "r", "d">>,
     ChannelL \o <<"_", "n", "y", "c", "t">>}

SaveDerived ==
    /\ StoreIdle
    /\ NumFiles < MaxFiles
    /\ \E feed_name \in DerivedFeeds : SaveParsed(feed_name, StoreSnapshot)
SaveDerivedSample ==
    /\ StoreIdle
    /\ NumFiles < MaxFiles
    /\ SaveSample(ChannelL, SampleData, <<>>)
LatestDerived ==
    /\ StoreIdle
    /\ \E feed_name \in DerivedFeeds, data_type \in {"parsed", "samples"} :
           GetLatestFile(feed_name, data_type)

NextDerived ==
    \/ Tick
    \/ SaveDerived
    \/ SaveDerivedSample
    \/ LatestDerived
    \/ Return

SpecDerived == InitIdle /\ [][NextDerived]_vars

\* the files of the directory saved under the channel as '{channel}_{timestamp}.{ext}'
FilesOfChannel(feed_name, data_type) ==
    {f \in Dir(data_type) :
        /\ f.feed = feed_name
        /\ f.name = feed_name \o Underscore \o strftime(f.mtime)
                    \o (IF data_type = "raw" THEN ExtPb ELSE ExtJson)}

(***************************************************************************)
(* C22: a path returned by get_latest_file(channel, kind) names a file that *)
(* was saved under exactly that channel as '{channel}_{timestamp}.{ext}',   *)
(* and no file so saved for the channel is more recent.                     *)
(***************************************************************************)
C22_LatestIsOfQueriedChannel ==
    (scall.op = "get_latest_file" /\ scall.out.ret.k = "path") =>
        LET own == FilesOfChannel(scall.feed_name, scall.data_type)
        IN \E f \in own :
              /\ f.name = scall.out.ret.v.name
              /\ \A g \in own : g.mtime <= f.mtime

(***************************************************************************)
(* C23: validate_line_coverage(snapshot, expected) has has_coverage true    *)
(* exactly when every expected route is in routes_covered of                *)
(* get_data_statistics(snapshot), and the expected routes it does not       *)
(* report missing are the expected routes of routes_covered.                *)
(***************************************************************************)
C23_CoverageAgreesWithStatistics ==
    vcall.op = "validate_line_coverage" =>
        LET routes_covered == get_data_statistics(vcall.feed_data, 100000).routes_covered
            expected == SeqRange(vcall.expected_lines)
        IN /\ vcall.ret.has_coverage <=> expected \subseteq routes_covered
           /\ expected \ SeqRange(vcall.ret.missing_lines) = expected \cap routes_covered

====
